---- MODULE Spec2Model ----
(***************************************************************************)
(* Verification model of bitprim-blockchain:                               *)
(*   - the UTXO index (utxo_database over the htdb record hash table),     *)
(*   - blockchain_impl's seqlock protocol (write strand, readers),         *)
(*   - validate_block::check_block and validate_block::connect_block.      *)
(* Each subsystem has its own specification (SpecUtxo, SpecChain,          *)
(* SpecCheck, SpecConnect) over the module's variables; the variables of   *)
(* the other subsystems stay at their initial values.                      *)
(***************************************************************************)
EXTENDS Integers, Sequences, FiniteSets, TLC

VARIABLES
    \* ---- utxo_database (unnamed/part_003) ----
    header_,        \* htdb_record_header: bucket -> index of the chain's head
    allocator_,     \* record_allocator: the records, by index (1-based)
    last_op,        \* the utxo_database call that has just returned
    stored,         \* history: per outpoint, the inpoints stored and not yet
                    \* removed, newest first
    \* ---- blockchain_impl (unnamed/part_004) ----
    seqlock_,       \* the sequence lock counter
    stopped_,       \* the stopped flag
    flock_,         \* the database directory's lock file
    write_strand_,  \* tasks queued on the write strand, oldest first
    read_strand_,   \* tasks queued on the read strand, oldest first
    tasks,          \* every operation issued so far, in call order
    blocks_,        \* interface_.blocks: the block ids of the chain
    transactions_,  \* interface_.transactions: block ids whose txs are stored
    orphans_,       \* the orphan pool
    started,        \* history: the tasks whose write body began, in order
    \* ---- validate_block (src/validate_block.cpp) ----
    current_block_, \* the block under validation
    height_,        \* the height the block is validated at
    checkpoints_,   \* the checkpoints given to the validator
    stop_flag,      \* what the stop callback answers when it is called
    clock,          \* the wall clock (second_clock::universal_time)
    vb_pc,          \* the validator's program point
    vb_index,       \* the loop index at that point (1-based)
    vb_result,      \* the error code returned
    vb_line,        \* the source line of the return statement taken
    vb_now,         \* the clock value read by is_valid_time_stamp
    previous_run,   \* history: the last finished check_block invocation
    \* ---- validate_block::connect_block and its chain view ----
    interface_,     \* the database: transactions by hash, spends by outpoint
    fork_index_,    \* the height of the fork point on the persistent chain
    orphan_chain_,  \* the orphan branch, oldest block first
    orphan_index_,  \* the position of the block in the branch (0-based)
    activations_,   \* the soft forks in force
    cb_pc,          \* connect_block's program point
    tx_index,       \* the transaction connect_block is at (1-based)
    input_index,    \* the input validate_inputs is at (1-based)
    value_in,       \* the input value of the transaction so far
    total_sigops,   \* the block's running signature operation count
    fees,           \* the block's fees so far
    cb_result,      \* the error code connect_block returned
    cb_line,        \* the source line of the return statement taken
    connected,      \* history: the <<transaction, input>> pairs for which
                    \* connect_input returned true
    stopped_at,     \* history: where connect_block was when the stop callback
                    \* started answering true
    \* ---- validate_block::initialize_context and accept_block ----
    testnet,        \* the build: ENABLE_TESTNET defined or not
    minimum_version_,   \* the block version initialize_context requires
    was_active,     \* history: the <<soft fork, height>> pairs that
                    \* initialize_context activated on prefixes of the chain
    previous_work,  \* history: <<candidate timestamp, bits work_required
                    \* returned>> for the candidates validated at this
                    \* height over this chain
    \* ---- blockchain_impl instances over one database directory ----
    lockfile,       \* the process that holds the directory's lock file
    instances,      \* per instance: position in start(), stopped_, whether
                    \* interface_.start() ran, what start() returned last
    \* ---- blockchain_impl::fetch_locator_blocks ----
    block_table,    \* interface_.blocks: the header hash per height,
                    \* height h at position h + 1
    fetch_locator,  \* the request: start_hashes, hash_stop
    fetch_threshold,    \* the request: threshold
    fetch_pc,       \* "idle", "queued" (do_fetch on the read strand), "done"
                    \* (handler invoked), "aborted" (the process crashed)
    fetch_start,    \* do_fetch: start, as it stands before the loop
    fetch_stop,     \* do_fetch: stop
    fetch_hashes    \* the hash list handed to the handler

utxoVars == <<header_, allocator_, last_op, stored>>

chainVars == <<seqlock_, stopped_, flock_, write_strand_, read_strand_, tasks,
               blocks_, transactions_, orphans_, started>>

checkVars == <<current_block_, height_, checkpoints_, stop_flag, clock, vb_pc,
               vb_index, vb_result, vb_line, vb_now, previous_run>>

connectVars == <<interface_, fork_index_, orphan_chain_, orphan_index_,
                 activations_, cb_pc, tx_index, input_index, value_in,
                 total_sigops, fees, cb_result, cb_line, connected,
                 stopped_at>>

acceptVars == <<testnet, minimum_version_, was_active, previous_work>>

lockVars == <<lockfile, instances>>

locatorVars == <<block_table, fetch_locator, fetch_threshold, fetch_pc,
                 fetch_start, fetch_stop, fetch_hashes>>

vars == <<utxoVars, chainVars, checkVars, connectVars, acceptVars, lockVars,
          locatorVars>>

(***************************************************************************)
(*                              UTXO index                                 *)
(***************************************************************************)

\* Cap on the number of records the allocator hands out in a run.
MaxRows == 3

\* Number of buckets of the modelled table.  The program's number_buckets
\* (228110589) is scaled down so that distinct keys share a bucket chain.
NumBuckets == 2

\* The sentinel "null" record index (0xFFFFFFFF in the file format).
NullIndex == 0

\* The outpoints and inpoints the operations are called with.
OutPoints ==
    { [hash |-> 1, index |-> 0], [hash |-> 1, index |-> 1],
      [hash |-> 2, index |-> 0] }

InPoints == { [hash |-> 7, index |-> 0], [hash |-> 8, index |-> 1] }

\* utxo_result of a miss: record_ == nullptr.
NoRecord == <<>>

\* sha256_hash over the point bytes, as an injective digest of the
\* (hash, little-endian index) concatenation.
sha256_hash(point) == point[1] * 4 + point[2] + 1

\* The mutant drops the index from the hashed point.
output_to_hash_hash_only(output) == sha256_hash(<<output.hash, 0>>)

\* hash_digest output_to_hash(const output_point&): the table key of a point.
output_to_hash(output) == sha256_hash(<<output.hash, output.index>>)

\* htdb_record_header: the bucket of a key.
bucket_for(key) == key % NumBuckets

\* Walks the chain starting at record `index`; the first record whose key is
\* `key`, or NullIndex.
RECURSIVE find_record(_, _, _)
find_record(records, index, key) ==
    IF index = NullIndex THEN NullIndex
    ELSE IF records[index].key = key THEN index
    ELSE find_record(records, records[index].next, key)

\* htdb_record::get: the value bytes of the first match, or none.
htdb_get(hdr, records, key) ==
    LET found == find_record(records, hdr[bucket_for(key)], key)
    IN  IF found = NullIndex THEN NoRecord ELSE records[found].value

\* The record whose next is `target`, walking from `index`.
RECURSIVE find_previous(_, _, _)
find_previous(records, index, target) ==
    IF records[index].next = target THEN index
    ELSE find_previous(records, records[index].next, target)

\* htdb_record::store: a new record at the head of the key's chain.
htdb_store_header(hdr, records, key) ==
    [hdr EXCEPT ![bucket_for(key)] = Len(records) + 1]

htdb_store_records(hdr, records, key, value) ==
    Append(records,
           [key |-> key, next |-> hdr[bucket_for(key)], value |-> value])

\* htdb_record::unlink: the first match leaves its chain (the record itself
\* is leaked); false when the key is absent.
htdb_unlink_success(hdr, records, key) ==
    find_record(records, hdr[bucket_for(key)], key) # NullIndex

htdb_unlink_header(hdr, records, key) ==
    LET begin == hdr[bucket_for(key)]
    IN  IF begin # NullIndex /\ records[begin].key = key
        THEN [hdr EXCEPT ![bucket_for(key)] = records[begin].next]
        ELSE hdr

htdb_unlink_records(hdr, records, key) ==
    LET begin == hdr[bucket_for(key)]
        found == find_record(records, begin, key)
    IN  IF found = NullIndex \/ found = begin THEN records
        ELSE [records EXCEPT
                 ![find_previous(records, begin, found)].next =
                     records[found].next]

\* The write lambda of utxo_database::store: hash, then the 4-byte index.
write_utxo(utxo) == <<utxo.hash, utxo.index>>

\* utxo_result::hash() / index(): the inpoint decoded from the record.
utxo_result_point(record) == [hash |-> record[1], index |-> record[2]]

\* utxo_database::get
get(outpoint) == htdb_get(header_, allocator_, output_to_hash(outpoint))

\* The mutant overwrites the record of an outpoint that is present.
store_overwrite(outpoint, utxo) ==
    LET key == output_to_hash(outpoint)
        found == find_record(allocator_, header_[bucket_for(key)], key)
    IN  /\ Len(allocator_) < MaxRows
        /\ IF found = NullIndex
           THEN /\ header_' = htdb_store_header(header_, allocator_, key)
                /\ allocator_' = htdb_store_records(header_, allocator_, key,
                                                    write_utxo(utxo))
           ELSE /\ header_' = header_
                /\ allocator_' =
                       [allocator_ EXCEPT ![found].value = write_utxo(utxo)]
        /\ last_op' = [op |-> "store", outpoint |-> outpoint, utxo |-> utxo]
        /\ stored' = [stored EXCEPT ![outpoint] = <<utxo>> \o @]

\* utxo_database::store
store(outpoint, utxo) ==
    LET key == output_to_hash(outpoint)
    IN  /\ Len(allocator_) < MaxRows
        /\ header_' = htdb_store_header(header_, allocator_, key)
        /\ allocator_' = htdb_store_records(header_, allocator_, key,
                                            write_utxo(utxo))
        /\ last_op' = [op |-> "store", outpoint |-> outpoint, utxo |-> utxo]
        /\ stored' = [stored EXCEPT ![outpoint] = <<utxo>> \o @]

\* utxo_database::remove (the assertion on unlink's result is debug-only)
remove(outpoint) ==
    LET key == output_to_hash(outpoint)
    IN  /\ header_' = htdb_unlink_header(header_, allocator_, key)
        /\ allocator_' = htdb_unlink_records(header_, allocator_, key)
        /\ last_op' = [op |-> "remove", outpoint |-> outpoint,
                       utxo |-> [hash |-> 0, index |-> 0]]
        /\ stored' = [stored EXCEPT
                         ![outpoint] = IF @ = <<>> THEN @ ELSE Tail(@)]

\* utxo_database::create: every bucket null, no records.
UtxoInit ==
    /\ header_ = [b \in 0..(NumBuckets - 1) |-> NullIndex]
    /\ allocator_ = <<>>
    /\ last_op = [op |-> "create", outpoint |-> [hash |-> 0, index |-> 0],
                  utxo |-> [hash |-> 0, index |-> 0]]
    /\ stored = [o \in OutPoints |-> <<>>]

Store == \E o \in OutPoints, i \in InPoints : store(o, i)

Remove == \E o \in OutPoints : remove(o)

\* The other subsystems do not move while the UTXO index is exercised.
UtxoOnly ==
    UNCHANGED <<chainVars, checkVars, connectVars, acceptVars, lockVars,
                locatorVars>>

UtxoNext ==
    \/ Store /\ UtxoOnly
    \/ Remove /\ UtxoOnly

\* The records linked in the chain that starts at `index`, in chain order.
RECURSIVE chain_records(_, _)
chain_records(records, index) ==
    IF index = NullIndex THEN <<>>
    ELSE <<records[index]>> \o chain_records(records, records[index].next)

\* The number of records the table holds for an outpoint's key.
RECURSIVE count_key(_, _)
count_key(chain, key) ==
    IF chain = <<>> THEN 0
    ELSE (IF Head(chain).key = key THEN 1 ELSE 0) + count_key(Tail(chain), key)

rows_of(outpoint) ==
    LET key == output_to_hash(outpoint)
    IN  count_key(chain_records(allocator_, header_[bucket_for(key)]), key)

(***************************************************************************)
(*                    blockchain_impl: strands and seqlock                 *)
(***************************************************************************)

\* Cap on the number of operations (store, import, fetch) issued in a run.
MaxTasks == 2

\* The blocks that store and import are called with.
BlockIds == {1, 2}

\* What a racing read of memory under modification may return.
Torn == -1

WriteKinds == {"store", "import"}
ReadKinds == {"fetch_parallel", "fetch_ordered"}

\* The program points between start_write and stop_write.
BodyPcs == {"find_height", "orphans_add", "organize", "push_transactions",
            "push_block", "stop_write"}

\* A task that has been dispatched and has not returned.
Running(t) == tasks[t].pc \notin {"queued", "posted", "done"}

InBody(t) == tasks[t].kind \in WriteKinds /\ tasks[t].pc \in BodyPcs

\* The strand a running task occupies: handlers of one strand never overlap.
OnStrand(t, strand) == tasks[t].strand = strand /\ Running(t)

NewTask(kind, block, pc, strand) ==
    [kind |-> kind, block |-> block, pc |-> pc, strand |-> strand,
     ec |-> "none", slock |-> 0, r_blocks |-> 0, r_transactions |-> 0,
     dirty |-> FALSE, handled |-> FALSE]

TaskIds == 1..Len(tasks)

\* blockchain_impl::blockchain_impl: seqlock_(0), stopped_(true); the lock
\* file is free or locked by another instance.
ChainInit ==
    /\ seqlock_ = 0
    /\ stopped_ = TRUE
    /\ flock_ \in {"free", "other"}
    /\ write_strand_ = <<>>
    /\ read_strand_ = <<>>
    /\ tasks = <<>>
    /\ blocks_ = <<>>
    /\ transactions_ = <<>>
    /\ orphans_ = {}
    /\ started = <<>>

\* blockchain_impl::start
start ==
    /\ IF flock_ = "other"
       THEN UNCHANGED <<flock_, stopped_>>
       ELSE /\ flock_' = "held"
            /\ stopped_' = FALSE
    /\ UNCHANGED <<seqlock_, write_strand_, read_strand_, tasks, blocks_,
                   transactions_, orphans_, started>>

\* blockchain_impl::stop
stop ==
    /\ stopped_' = TRUE
    /\ UNCHANGED <<seqlock_, flock_, write_strand_, read_strand_, tasks,
                   blocks_, transactions_, orphans_, started>>

\* The mutant posts the import to the pool instead of the write strand.
import_unordered(block) ==
    /\ Len(tasks) < MaxTasks
    /\ tasks' = Append(tasks, NewTask("import", block, "posted", "none"))
    /\ UNCHANGED <<seqlock_, stopped_, flock_, write_strand_, read_strand_,
                   blocks_, transactions_, orphans_, started>>

\* blockchain_impl::store: write_strand_.queue(do_store)
store_block(block) ==
    /\ Len(tasks) < MaxTasks
    /\ tasks' = Append(tasks, NewTask("store", block, "queued", "write"))
    /\ write_strand_' = Append(write_strand_, Len(tasks) + 1)
    /\ UNCHANGED <<seqlock_, stopped_, flock_, read_strand_, blocks_,
                   transactions_, orphans_, started>>

\* blockchain_impl::import: write_strand_.queue(do_import)
import(block) ==
    /\ Len(tasks) < MaxTasks
    /\ tasks' = Append(tasks, NewTask("import", block, "queued", "write"))
    /\ write_strand_' = Append(write_strand_, Len(tasks) + 1)
    /\ UNCHANGED <<seqlock_, stopped_, flock_, read_strand_, blocks_,
                   transactions_, orphans_, started>>

\* blockchain_impl::fetch_parallel: read_strand_.async(do_read)
fetch_parallel ==
    /\ Len(tasks) < MaxTasks
    /\ tasks' = Append(tasks, NewTask("fetch_parallel", 0, "posted", "none"))
    /\ UNCHANGED <<seqlock_, stopped_, flock_, write_strand_, read_strand_,
                   blocks_, transactions_, orphans_, started>>

\* blockchain_impl::fetch_ordered: read_strand_.queue(do_read)
fetch_ordered ==
    /\ Len(tasks) < MaxTasks
    /\ tasks' = Append(tasks, NewTask("fetch_ordered", 0, "queued", "read"))
    /\ read_strand_' = Append(read_strand_, Len(tasks) + 1)
    /\ UNCHANGED <<seqlock_, stopped_, flock_, write_strand_, blocks_,
                   transactions_, orphans_, started>>

\* The first program point of a task's handler.
EntryPc(kind) ==
    CASE kind = "store" -> "stopped_check"
      [] kind = "import" -> "start_write"
      [] OTHER -> "try_read"

\* The write strand runs its oldest handler, one handler at a time.
write_strand_run ==
    /\ write_strand_ # <<>>
    /\ \A t \in TaskIds : ~OnStrand(t, "write")
    /\ tasks' = [tasks EXCEPT
                    ![Head(write_strand_)].pc = EntryPc(tasks[Head(write_strand_)].kind)]
    /\ write_strand_' = Tail(write_strand_)
    /\ UNCHANGED <<seqlock_, stopped_, flock_, read_strand_, blocks_,
                   transactions_, orphans_, started>>

\* The read strand runs its oldest handler, one handler at a time.
read_strand_run ==
    /\ read_strand_ # <<>>
    /\ \A t \in TaskIds : ~OnStrand(t, "read")
    /\ tasks' = [tasks EXCEPT ![Head(read_strand_)].pc = "try_read"]
    /\ read_strand_' = Tail(read_strand_)
    /\ UNCHANGED <<seqlock_, stopped_, flock_, write_strand_, blocks_,
                   transactions_, orphans_, started>>

\* The thread pool runs a posted handler, whatever else is running.
pool_run(t) ==
    /\ tasks[t].pc = "posted"
    /\ tasks' = [tasks EXCEPT ![t].pc = EntryPc(tasks[t].kind)]
    /\ UNCHANGED <<seqlock_, stopped_, flock_, write_strand_, read_strand_,
                   blocks_, transactions_, orphans_, started>>

\* do_store: if (stopped()) return;
do_store_stopped_check(t) ==
    /\ tasks[t].kind = "store" /\ tasks[t].pc = "stopped_check"
    /\ tasks' = [tasks EXCEPT
                    ![t].pc = IF stopped_ THEN "done" ELSE "start_write"]
    /\ UNCHANGED <<seqlock_, stopped_, flock_, write_strand_, read_strand_,
                   blocks_, transactions_, orphans_, started>>

\* blockchain_impl::start_write, called first by do_store and by do_import
start_write(t) ==
    /\ tasks[t].kind \in WriteKinds /\ tasks[t].pc = "start_write"
    /\ seqlock_' = seqlock_ + 1
    /\ started' = Append(started, t)
    /\ tasks' = [tasks EXCEPT
                    ![t].pc = IF tasks[t].kind = "store" THEN "find_height"
                              ELSE "push_transactions"]
    /\ UNCHANGED <<stopped_, flock_, write_strand_, read_strand_, blocks_,
                   transactions_, orphans_>>

\* simple_chain::find_height: whether the block is on the chain.
find_height(block) == \E h \in 1..Len(blocks_) : blocks_[h] = block

\* The mutant returns on a confirmed duplicate without calling stop_write.
do_store_find_height_no_stop(t) ==
    /\ tasks[t].kind = "store" /\ tasks[t].pc = "find_height"
    /\ tasks' = [tasks EXCEPT
                    ![t].pc = IF find_height(tasks[t].block) THEN "done"
                              ELSE "orphans_add",
                    ![t].ec = IF find_height(tasks[t].block) THEN "duplicate"
                              ELSE @]
    /\ UNCHANGED <<seqlock_, stopped_, flock_, write_strand_, read_strand_,
                   blocks_, transactions_, orphans_, started>>

\* do_store: a block that is on the chain is a duplicate.
do_store_find_height(t) ==
    /\ tasks[t].kind = "store" /\ tasks[t].pc = "find_height"
    /\ tasks' = [tasks EXCEPT
                    ![t].pc = IF find_height(tasks[t].block) THEN "stop_write"
                              ELSE "orphans_add",
                    ![t].ec = IF find_height(tasks[t].block) THEN "duplicate"
                              ELSE @]
    /\ UNCHANGED <<seqlock_, stopped_, flock_, write_strand_, read_strand_,
                   blocks_, transactions_, orphans_, started>>

\* do_store: orphans_.add(detail) fails for a block that is in the pool.
do_store_orphans_add(t) ==
    /\ tasks[t].kind = "store" /\ tasks[t].pc = "orphans_add"
    /\ IF tasks[t].block \in orphans_
       THEN /\ tasks' = [tasks EXCEPT ![t].pc = "stop_write",
                                      ![t].ec = "duplicate"]
            /\ orphans_' = orphans_
       ELSE /\ tasks' = [tasks EXCEPT ![t].pc = "organize"]
            /\ orphans_' = orphans_ \cup {tasks[t].block}
    /\ UNCHANGED <<seqlock_, stopped_, flock_, write_strand_, read_strand_,
                   blocks_, transactions_, started>>

\* do_store: organizer_.start() either connects the block to the chain
\* (a push to the database) or leaves it in the orphan pool.
do_store_organize(t) ==
    /\ tasks[t].kind = "store" /\ tasks[t].pc = "organize"
    /\ \/ /\ tasks' = [tasks EXCEPT ![t].pc = "push_transactions"]
          /\ orphans_' = orphans_ \ {tasks[t].block}
       \/ /\ tasks' = [tasks EXCEPT ![t].pc = "stop_write",
                                    ![t].ec = "success"]
          /\ orphans_' = orphans_
    /\ UNCHANGED <<seqlock_, stopped_, flock_, write_strand_, read_strand_,
                   blocks_, transactions_, started>>

\* interface_.push(block), first part: the block's transactions are stored.
push_transactions(t) ==
    /\ tasks[t].kind \in WriteKinds /\ tasks[t].pc = "push_transactions"
    /\ transactions_' = Append(transactions_, tasks[t].block)
    /\ tasks' = [tasks EXCEPT ![t].pc = "push_block"]
    /\ UNCHANGED <<seqlock_, stopped_, flock_, write_strand_, read_strand_,
                   blocks_, orphans_, started>>

\* interface_.push(block), second part: the block itself is stored.
push_block(t) ==
    /\ tasks[t].kind \in WriteKinds /\ tasks[t].pc = "push_block"
    /\ blocks_' = Append(blocks_, tasks[t].block)
    /\ tasks' = [tasks EXCEPT ![t].pc = "stop_write", ![t].ec = "success"]
    /\ UNCHANGED <<seqlock_, stopped_, flock_, write_strand_, read_strand_,
                   transactions_, orphans_, started>>

\* blockchain_impl::stop_write: ++seqlock_, then the handler is invoked.
stop_write(t) ==
    /\ tasks[t].kind \in WriteKinds /\ tasks[t].pc = "stop_write"
    /\ seqlock_' = seqlock_ + 1
    /\ tasks' = [tasks EXCEPT ![t].pc = "done", ![t].handled = TRUE]
    /\ UNCHANGED <<stopped_, flock_, write_strand_, read_strand_, blocks_,
                   transactions_, orphans_, started>>

\* The mutant performs the read whatever the parity of the counter.
try_read_any_parity(t) ==
    /\ tasks[t].kind \in ReadKinds /\ tasks[t].pc = "try_read"
    /\ tasks' = [tasks EXCEPT ![t].slock = seqlock_, ![t].dirty = FALSE,
                              ![t].pc = "read_blocks"]
    /\ UNCHANGED <<seqlock_, stopped_, flock_, write_strand_, read_strand_,
                   blocks_, transactions_, orphans_, started>>

\* try_read: slock = seqlock_.load(); an odd value fails the attempt.
try_read(t) ==
    /\ tasks[t].kind \in ReadKinds /\ tasks[t].pc = "try_read"
    /\ tasks' = [tasks EXCEPT ![t].slock = seqlock_, ![t].dirty = FALSE,
                              ![t].pc = IF seqlock_ % 2 # 1 THEN "read_blocks"
                                        ELSE "sleep"]
    /\ UNCHANGED <<seqlock_, stopped_, flock_, write_strand_, read_strand_,
                   blocks_, transactions_, orphans_, started>>

\* What a lock-free read of `value` may return: the value, or anything when
\* a writer is modifying the database at that moment.
ReadOf(value) ==
    IF \E w \in TaskIds : InBody(w) THEN {value, Torn} ELSE {value}

\* perform_read, first query: the chain's height from interface_.blocks.
read_blocks(t) ==
    /\ tasks[t].kind \in ReadKinds /\ tasks[t].pc = "read_blocks"
    /\ \E v \in ReadOf(Len(blocks_)) :
           tasks' = [tasks EXCEPT
                        ![t].r_blocks = v,
                        ![t].dirty = @ \/ seqlock_ # tasks[t].slock,
                        ![t].pc = "read_transactions"]
    /\ UNCHANGED <<seqlock_, stopped_, flock_, write_strand_, read_strand_,
                   blocks_, transactions_, orphans_, started>>

\* perform_read, second query: from interface_.transactions.
read_transactions(t) ==
    /\ tasks[t].kind \in ReadKinds /\ tasks[t].pc = "read_transactions"
    /\ \E v \in ReadOf(Len(transactions_)) :
           tasks' = [tasks EXCEPT
                        ![t].r_transactions = v,
                        ![t].dirty = @ \/ seqlock_ # tasks[t].slock,
                        ![t].pc = "finish_fetch"]
    /\ UNCHANGED <<seqlock_, stopped_, flock_, write_strand_, read_strand_,
                   blocks_, transactions_, orphans_, started>>

\* blockchain_impl::finish_fetch: the handler is invoked unless the counter
\* differs from the sampled value, in which case the attempt fails.
finish_fetch(t) ==
    /\ tasks[t].kind \in ReadKinds /\ tasks[t].pc = "finish_fetch"
    /\ tasks' = [tasks EXCEPT
                    ![t].pc = IF tasks[t].slock # seqlock_ THEN "sleep"
                              ELSE "done",
                    ![t].r_blocks = IF tasks[t].slock # seqlock_ THEN 0 ELSE @,
                    ![t].r_transactions =
                        IF tasks[t].slock # seqlock_ THEN 0 ELSE @,
                    ![t].dirty = IF tasks[t].slock # seqlock_ THEN FALSE ELSE @,
                    ![t].handled = (tasks[t].slock = seqlock_)]
    /\ UNCHANGED <<seqlock_, stopped_, flock_, write_strand_, read_strand_,
                   blocks_, transactions_, orphans_, started>>

\* The mutant makes one attempt only: a failed try_read ends do_read.
sleep_gives_up(t) ==
    /\ tasks[t].kind \in ReadKinds /\ tasks[t].pc = "sleep"
    /\ tasks' = [tasks EXCEPT ![t].pc = "done"]
    /\ UNCHANGED <<seqlock_, stopped_, flock_, write_strand_, read_strand_,
                   blocks_, transactions_, orphans_, started>>

\* do_read: while (!try_read()) sleep_for(10ms)
sleep(t) ==
    /\ tasks[t].kind \in ReadKinds /\ tasks[t].pc = "sleep"
    /\ tasks' = [tasks EXCEPT ![t].pc = "try_read"]
    /\ UNCHANGED <<seqlock_, stopped_, flock_, write_strand_, read_strand_,
                   blocks_, transactions_, orphans_, started>>

StoreBlock == \E b \in BlockIds : store_block(b)
Import == \E b \in BlockIds : import(b)
PoolRun == \E t \in TaskIds : pool_run(t)
DoStoreStoppedCheck == \E t \in TaskIds : do_store_stopped_check(t)
StartWrite == \E t \in TaskIds : start_write(t)
DoStoreFindHeight == \E t \in TaskIds : do_store_find_height(t)
DoStoreOrphansAdd == \E t \in TaskIds : do_store_orphans_add(t)
DoStoreOrganize == \E t \in TaskIds : do_store_organize(t)
PushTransactions == \E t \in TaskIds : push_transactions(t)
PushBlock == \E t \in TaskIds : push_block(t)
StopWrite == \E t \in TaskIds : stop_write(t)
TryRead == \E t \in TaskIds : try_read(t)
ReadBlocks == \E t \in TaskIds : read_blocks(t)
ReadTransactions == \E t \in TaskIds : read_transactions(t)
FinishFetch == \E t \in TaskIds : finish_fetch(t)
Sleep == \E t \in TaskIds : sleep(t)

\* The other subsystems do not move while blockchain_impl runs.
ChainOnly ==
    UNCHANGED <<utxoVars, checkVars, connectVars, acceptVars, lockVars,
                locatorVars>>

ChainNext ==
    \/ start /\ ChainOnly
    \/ stop /\ ChainOnly
    \/ StoreBlock /\ ChainOnly
    \/ Import /\ ChainOnly
    \/ fetch_parallel /\ ChainOnly
    \/ fetch_ordered /\ ChainOnly
    \/ write_strand_run /\ ChainOnly
    \/ read_strand_run /\ ChainOnly
    \/ PoolRun /\ ChainOnly
    \/ DoStoreStoppedCheck /\ ChainOnly
    \/ StartWrite /\ ChainOnly
    \/ DoStoreFindHeight /\ ChainOnly
    \/ DoStoreOrphansAdd /\ ChainOnly
    \/ DoStoreOrganize /\ ChainOnly
    \/ PushTransactions /\ ChainOnly
    \/ PushBlock /\ ChainOnly
    \/ StopWrite /\ ChainOnly
    \/ TryRead /\ ChainOnly
    \/ ReadBlocks /\ ChainOnly
    \/ ReadTransactions /\ ChainOnly
    \/ FinishFetch /\ ChainOnly
    \/ Sleep /\ ChainOnly

(***************************************************************************)
(*                       validate_block::check_block                       *)
(***************************************************************************)

\* Cap on the number of transactions of a modelled block.
MaxBlockTxs == 3

\* Cap on the number of seconds the wall clock advances in a run.
MaxClock == 1

max_block_size == 1000000

max_block_script_sig_operations == max_block_size \div 50

\* hours(2), in seconds.
two_hours == 7200

\* max_money(), in whole coins (21 million) instead of satoshis.
max_money == 21000000

\* The serialized size of a block header and of the transaction count.
header_size == 80
count_size == 1

\* null_hash and the index of a null point (0xFFFFFFFF, scaled down).
null_hash == 0
null_index == 65535

\* hash_number and its compact encoding, scaled down: a byte is a base-4
\* digit, a hash_number has NumberDigits of them, and compact bits are
\* exponent * 64 + mantissa, the mantissa being three digits whose top bit
\* (32) is the sign.
Radix == 4
NumberDigits == 8
MantissaModulus == 64
SignBit == 32

\* max_target() is 0xffff followed by zero bytes; max_work_bits encodes it.
max_target == 15 * Radix ^ 2
max_work_bits == 5 * MantissaModulus + 15

compact_exponent(bits) == bits \div MantissaModulus
compact_word(bits) == (bits % MantissaModulus) % SignBit
compact_negative(bits) ==
    compact_word(bits) # 0 /\ (bits % MantissaModulus) >= SignBit
compact_overflow(bits) ==
    /\ compact_word(bits) # 0
    /\ \/ compact_exponent(bits) > NumberDigits + 2
       \/ (compact_word(bits) >= Radix
               /\ compact_exponent(bits) > NumberDigits + 1)
       \/ (compact_word(bits) >= Radix * Radix
               /\ compact_exponent(bits) > NumberDigits)

\* hash_number::set_compact: false for a negative or overflowing encoding
set_compact(bits) == ~compact_negative(bits) /\ ~compact_overflow(bits)

\* The value hash_number::set_compact leaves in the number.
compact_target(bits) ==
    IF compact_exponent(bits) <= 3
    THEN compact_word(bits) \div Radix ^ (3 - compact_exponent(bits))
    ELSE compact_word(bits) * Radix ^ (compact_exponent(bits) - 3)

\* The number of base-4 digits of a value.
RECURSIVE digits(_)
digits(value) == IF value = 0 THEN 0 ELSE 1 + digits(value \div Radix)

\* hash_number::compact: the top three digits as mantissa, moved down by one
\* digit when they would set the sign bit.
compact(value) ==
    LET size == digits(value)
        mantissa == IF size <= 3 THEN value * Radix ^ (3 - size)
                    ELSE value \div Radix ^ (size - 3)
    IN  IF mantissa >= SignBit
        THEN (size + 1) * MantissaModulus + mantissa \div Radix
        ELSE size * MantissaModulus + mantissa

\* A script is a sequence of runs <<opcode, repetitions>>.
NopScript(n) == << <<"nop", n>> >>
SigScript(n) == << <<"checksig", n>> >>
MultisigScript(n) == << <<"checkmultisig", n>> >>

NullPoint == [hash |-> null_hash, index |-> null_index]

\* The transactions blocks are built from.
Coinbase1 ==
    [hash |-> 1, size |-> 100,
     inputs |-> << [previous_output |-> NullPoint, script |-> NopScript(2)] >>,
     outputs |-> << [value |-> 50, script |-> SigScript(1)] >>]

Spend1 ==
    [hash |-> 2, size |-> 200,
     inputs |-> << [previous_output |-> [hash |-> 7, index |-> 0],
                    script |-> NopScript(1)] >>,
     outputs |-> << [value |-> 10, script |-> SigScript(1)] >>]

NoOutputs ==
    [hash |-> 3, size |-> 60,
     inputs |-> << [previous_output |-> [hash |-> 7, index |-> 1],
                    script |-> NopScript(1)] >>,
     outputs |-> << >>]

ManySigs ==
    [hash |-> 4, size |-> 21000,
     inputs |-> << [previous_output |-> [hash |-> 8, index |-> 0],
                    script |-> NopScript(1)] >>,
     outputs |-> << [value |-> 1, script |-> MultisigScript(1001)] >>]

Huge ==
    [hash |-> 5, size |-> 999900,
     inputs |-> << [previous_output |-> [hash |-> 8, index |-> 1],
                    script |-> NopScript(1)] >>,
     outputs |-> << [value |-> 1, script |-> SigScript(1)] >>]

CheckTxs == {Coinbase1, Spend1, NoOutputs, ManySigs, Huge}

\* The sequences over S of length at most n.
SeqsUpTo(S, n) == UNION {[1..k -> S] : k \in 0..n}

\* is_coinbase: a single input whose previous output is the null point.
is_coinbase(tx) ==
    /\ Len(tx.inputs) = 1
    /\ tx.inputs[1].previous_output = NullPoint

\* satoshi_raw_size(block)
RECURSIVE sum_sizes(_)
sum_sizes(txs) ==
    IF txs = <<>> THEN 0 ELSE Head(txs).size + sum_sizes(Tail(txs))

satoshi_raw_size(block) ==
    header_size + count_size + sum_sizes(block.transactions)

\* hash_transaction
hash_transaction(tx) == tx.hash

\* generate_merkle_root over the transaction hashes, in order.
RECURSIVE merkle_fold(_, _)
merkle_fold(txs, acc) ==
    IF txs = <<>> THEN acc
    ELSE merkle_fold(Tail(txs), (acc * 7 + hash_transaction(Head(txs))) % 1009)

generate_merkle_root(txs) == merkle_fold(txs, 1)

\* The mutant accepts a target above max_target().
is_valid_proof_of_work_no_maximum(hash, bits) ==
    /\ set_compact(bits)
    /\ compact_target(bits) > 0
    /\ hash <= compact_target(bits)

\* validate_block::is_valid_proof_of_work
is_valid_proof_of_work(hash, bits) ==
    /\ set_compact(bits)
    /\ ~(compact_target(bits) <= 0 \/ compact_target(bits) > max_target)
    /\ hash <= compact_target(bits)

\* validate_block::is_valid_time_stamp, at wall-clock time `now`
is_valid_time_stamp(timestamp, now) == timestamp <= now + two_hours

\* validate_block::is_distinct_tx_set: no two transactions share a hash.
is_distinct_tx_set(txs) ==
    \A i, j \in 1..Len(txs) :
        i # j => hash_transaction(txs[i]) # hash_transaction(txs[j])

\* within_op_n and decode_op_n, over the op_n opcodes the model uses.
within_op_n(code) == code \in {"op_1", "op_2", "op_3", "op_16"}

decode_op_n(code) ==
    CASE code = "op_1" -> 1
      [] code = "op_2" -> 2
      [] code = "op_3" -> 3
      [] code = "op_16" -> 16

\* count_script_sigops over a script's runs.  A checkmultisig counts the
\* preceding op_n when accurate, otherwise 20; within a run of them the
\* preceding opcode is a checkmultisig from the second one on.
RECURSIVE count_script_sigops(_, _, _)
count_script_sigops(operations, accurate, last_opcode) ==
    IF operations = <<>> THEN 0
    ELSE LET code == Head(operations)[1]
             n == Head(operations)[2]
             this ==
                 IF code \in {"checksig", "checksigverify"} THEN n
                 ELSE IF code \in {"checkmultisig", "checkmultisigverify"}
                 THEN IF n = 0 THEN 0
                      ELSE (IF accurate /\ within_op_n(last_opcode)
                            THEN decode_op_n(last_opcode) ELSE 20)
                               + 20 * (n - 1)
                 ELSE 0
         IN  this + count_script_sigops(Tail(operations), accurate,
                                        IF n = 0 THEN last_opcode ELSE code)

RECURSIVE sum_script_sigops(_)
sum_script_sigops(items) ==
    IF items = <<>> THEN 0
    ELSE count_script_sigops(Head(items).script, FALSE, "bad_operation")
             + sum_script_sigops(Tail(items))

\* validate_block::legacy_sigops_count(tx)
legacy_sigops_count(tx) ==
    sum_script_sigops(tx.inputs) + sum_script_sigops(tx.outputs)

\* validate_block::legacy_sigops_count(txs)
RECURSIVE legacy_sigops_count_list(_)
legacy_sigops_count_list(txs) ==
    IF txs = <<>> THEN 0
    ELSE legacy_sigops_count(Head(txs)) + legacy_sigops_count_list(Tail(txs))

RECURSIVE script_size(_)
script_size(operations) ==
    IF operations = <<>> THEN 0
    ELSE Head(operations)[2] + script_size(Tail(operations))

RECURSIVE total_output_value(_)
total_output_value(outputs) ==
    IF outputs = <<>> THEN 0
    ELSE Head(outputs).value + total_output_value(Tail(outputs))

\* validate_transaction::check_transaction: the stateless sanity check.
check_transaction(tx) ==
    IF tx.inputs = <<>> \/ tx.outputs = <<>> THEN "empty_transaction"
    ELSE IF \E o \in 1..Len(tx.outputs) :
                tx.outputs[o].value < 0 \/ tx.outputs[o].value > max_money
    THEN "output_value_overflow"
    ELSE IF total_output_value(tx.outputs) > max_money
    THEN "output_value_overflow"
    ELSE IF \E i, j \in 1..Len(tx.inputs) :
                i # j /\ tx.inputs[i].previous_output
                             = tx.inputs[j].previous_output
    THEN "duplicate_input"
    ELSE IF is_coinbase(tx)
    THEN IF script_size(tx.inputs[1].script) < 2
            \/ script_size(tx.inputs[1].script) > 100
         THEN "invalid_coinbase_script_size" ELSE "success"
    ELSE IF \E i \in 1..Len(tx.inputs) :
                tx.inputs[i].previous_output = NullPoint
    THEN "previous_output_null"
    ELSE "success"

\* The headers and blocks check_block is run on.  The merkle field is the
\* root of the block's transactions or a value that is not.
\* bits and header hash: set_compact fails, the target is above the maximum,
\* the hash is above the target, the proof of work is valid.
HeaderWork == { <<225, 5>>, <<399, 5>>, <<258, 12>>, <<258, 5>> }
Timestamps == {0, two_hours + 1}

CheckBlocks ==
    { [header |-> [version |-> 1, bits |-> w[1], hash |-> w[2],
                   timestamp |-> ts,
                   merkle |-> IF good THEN generate_merkle_root(txs) ELSE 0],
       transactions |-> txs] :
          w \in HeaderWork, ts \in Timestamps,
          good \in BOOLEAN, txs \in SeqsUpTo(CheckTxs, MaxBlockTxs) }

\* The height and the checkpoints a validator is constructed with.
Contexts == { [height |-> 0, checkpoints |-> <<>>],
              [height |-> 1, checkpoints |-> << [height |-> 1, hash |-> 12] >>] }

\* No invocation of check_block has finished yet.
NoRun == [result |-> "none", now |-> -1, height |-> -1]

\* hash_block_header
hash_block_header(header) == header.hash

\* The program points of check_block at which a check is evaluated and those
\* at which RETURN_IF_STOPPED() stands (named by their source line).
CheckPcs == {"size_limits", "proof_of_work", "time_stamp", "first_coinbase",
             "extra_coinbases", "check_transaction", "distinct", "sigops",
             "merkle"}
StoppedPcs == {"stopped_198", "stopped_203", "stopped_210", "stopped_218",
               "stopped_225", "stopped_230", "stopped_236"}

\* The check that follows each RETURN_IF_STOPPED() of check_block.
AfterStopped(pc) ==
    CASE pc = "stopped_198" -> "time_stamp"
      [] pc = "stopped_203" -> "first_coinbase"
      [] pc = "stopped_210" -> "extra_coinbases"
      [] pc = "stopped_218" -> "check_transaction"
      [] pc = "stopped_225" -> "distinct"
      [] pc = "stopped_230" -> "sigops"
      [] pc = "stopped_236" -> "merkle"

StoppedLine(pc) ==
    CASE pc = "stopped_198" -> 198
      [] pc = "stopped_203" -> 203
      [] pc = "stopped_210" -> 210
      [] pc = "stopped_218" -> 218
      [] pc = "stopped_225" -> 225
      [] pc = "stopped_230" -> 230
      [] pc = "stopped_236" -> 236

\* validate_block::validate_block: a validator for the block, not yet run.
ValidatorInit ==
    /\ \E context \in Contexts :
          /\ height_ = context.height
          /\ checkpoints_ = context.checkpoints
    /\ stop_flag = FALSE
    /\ vb_pc = "size_limits"
    /\ vb_index = 1
    /\ vb_result = "none"
    /\ vb_line = 0
    /\ vb_now = -1

CheckInit ==
    /\ current_block_ \in CheckBlocks
    /\ clock = 0
    /\ previous_run = NoRun
    /\ ValidatorInit

\* check_block returns `ec` from the return statement at `line`.
Return(ec, line) ==
    /\ vb_pc' = "done"
    /\ vb_result' = ec
    /\ vb_line' = line

\* check_block goes on to program point `pc`, loop index `index`.
Goto(pc, index) ==
    /\ vb_pc' = pc
    /\ vb_index' = index
    /\ UNCHANGED <<vb_result, vb_line>>

\* The stop callback starts answering true.
stop_requested ==
    /\ ~stop_flag
    /\ vb_pc # "done"
    /\ stop_flag' = TRUE
    /\ UNCHANGED <<current_block_, height_, checkpoints_, clock, vb_pc,
                   vb_index, vb_result, vb_line, vb_now, previous_run>>

\* The wall clock advances by a second.
tick ==
    /\ clock < MaxClock
    /\ clock' = clock + 1
    /\ UNCHANGED <<current_block_, height_, checkpoints_, stop_flag, vb_pc,
                   vb_index, vb_result, vb_line, vb_now, previous_run>>

\* The mutant reports success when the validation is stopped.
return_if_stopped_success ==
    /\ vb_pc \in StoppedPcs
    /\ IF stop_flag
       THEN Return("success", StoppedLine(vb_pc)) /\ UNCHANGED vb_index
       ELSE Goto(AfterStopped(vb_pc), vb_index)
    /\ UNCHANGED <<current_block_, height_, checkpoints_, stop_flag, clock,
                   vb_now, previous_run>>

\* RETURN_IF_STOPPED(): if (stopped()) return error::service_stopped
return_if_stopped ==
    /\ vb_pc \in StoppedPcs
    /\ IF stop_flag
       THEN Return("service_stopped", StoppedLine(vb_pc)) /\ UNCHANGED vb_index
       ELSE Goto(AfterStopped(vb_pc), vb_index)
    /\ UNCHANGED <<current_block_, height_, checkpoints_, stop_flag, clock,
                   vb_now, previous_run>>

\* check_block, lines 186-191
check_size_limits ==
    LET transactions == current_block_.transactions
    IN  /\ vb_pc = "size_limits"
        /\ IF \/ transactions = <<>>
              \/ Len(transactions) > max_block_size
              \/ satoshi_raw_size(current_block_) > max_block_size
           THEN Return("size_limits", 190) /\ UNCHANGED vb_index
           ELSE Goto("proof_of_work", vb_index)
        /\ UNCHANGED <<current_block_, height_, checkpoints_, stop_flag,
                       clock, vb_now, previous_run>>

\* check_block, lines 193-196
check_proof_of_work ==
    LET header == current_block_.header
    IN  /\ vb_pc = "proof_of_work"
        /\ IF ~is_valid_proof_of_work(hash_block_header(header), header.bits)
           THEN Return("proof_of_work", 196) /\ UNCHANGED vb_index
           ELSE Goto("stopped_198", vb_index)
        /\ UNCHANGED <<current_block_, height_, checkpoints_, stop_flag,
                       clock, vb_now, previous_run>>

\* check_block, lines 200-201
check_time_stamp ==
    /\ vb_pc = "time_stamp"
    /\ vb_now' = clock
    /\ IF ~is_valid_time_stamp(current_block_.header.timestamp, clock)
       THEN Return("futuristic_timestamp", 201) /\ UNCHANGED vb_index
       ELSE Goto("stopped_203", vb_index)
    /\ UNCHANGED <<current_block_, height_, checkpoints_, stop_flag, clock,
                   previous_run>>

\* The mutant does not look for coinbases after the first transaction.
check_first_coinbase_only ==
    LET transactions == current_block_.transactions
    IN  /\ vb_pc = "first_coinbase"
        /\ IF ~is_coinbase(transactions[1])
           THEN Return("first_not_coinbase", 206) /\ UNCHANGED vb_index
           ELSE Goto("stopped_218", 1)
        /\ UNCHANGED <<current_block_, height_, checkpoints_, stop_flag,
                       clock, vb_now, previous_run>>

\* check_block, lines 205-208: the first transaction, then the loop over the
\* others starts if there are any.
check_first_coinbase ==
    LET transactions == current_block_.transactions
    IN  /\ vb_pc = "first_coinbase"
        /\ IF ~is_coinbase(transactions[1])
           THEN Return("first_not_coinbase", 206) /\ UNCHANGED vb_index
           ELSE IF Len(transactions) >= 2
           THEN Goto("stopped_210", 2)
           ELSE Goto("stopped_218", 1)
        /\ UNCHANGED <<current_block_, height_, checkpoints_, stop_flag,
                       clock, vb_now, previous_run>>

\* check_block, lines 208-214: one iteration after its RETURN_IF_STOPPED()
check_extra_coinbases ==
    LET transactions == current_block_.transactions
    IN  /\ vb_pc = "extra_coinbases"
        /\ IF is_coinbase(transactions[vb_index])
           THEN Return("extra_coinbases", 213) /\ UNCHANGED vb_index
           ELSE IF vb_index < Len(transactions)
           THEN Goto("stopped_210", vb_index + 1)
           ELSE Goto("stopped_218", 1)
        /\ UNCHANGED <<current_block_, height_, checkpoints_, stop_flag,
                       clock, vb_now, previous_run>>

\* check_block, lines 216-223: one iteration after its RETURN_IF_STOPPED()
check_transactions ==
    LET transactions == current_block_.transactions
        ec == check_transaction(transactions[vb_index])
    IN  /\ vb_pc = "check_transaction"
        /\ IF ec # "success"
           THEN Return(ec, 222) /\ UNCHANGED vb_index
           ELSE IF vb_index < Len(transactions)
           THEN Goto("stopped_218", vb_index + 1)
           ELSE Goto("stopped_225", 1)
        /\ UNCHANGED <<current_block_, height_, checkpoints_, stop_flag,
                       clock, vb_now, previous_run>>

\* The mutant goes on to the sigop count without RETURN_IF_STOPPED().
check_distinct_no_stopped ==
    /\ vb_pc = "distinct"
    /\ IF ~is_distinct_tx_set(current_block_.transactions)
       THEN Return("duplicate", 228) /\ UNCHANGED vb_index
       ELSE Goto("sigops", vb_index)
    /\ UNCHANGED <<current_block_, height_, checkpoints_, stop_flag, clock,
                   vb_now, previous_run>>

\* check_block, lines 227-228
check_distinct ==
    /\ vb_pc = "distinct"
    /\ IF ~is_distinct_tx_set(current_block_.transactions)
       THEN Return("duplicate", 228) /\ UNCHANGED vb_index
       ELSE Goto("stopped_230", vb_index)
    /\ UNCHANGED <<current_block_, height_, checkpoints_, stop_flag, clock,
                   vb_now, previous_run>>

\* check_block, lines 232-234
check_sigops ==
    /\ vb_pc = "sigops"
    /\ IF legacy_sigops_count_list(current_block_.transactions)
              > max_block_script_sig_operations
       THEN Return("too_many_sigs", 234) /\ UNCHANGED vb_index
       ELSE Goto("stopped_236", vb_index)
    /\ UNCHANGED <<current_block_, height_, checkpoints_, stop_flag, clock,
                   vb_now, previous_run>>

\* check_block, lines 243-246
check_merkle ==
    /\ vb_pc = "merkle"
    /\ IF current_block_.header.merkle
              # generate_merkle_root(current_block_.transactions)
       THEN Return("merkle_mismatch", 244)
       ELSE Return("success", 246)
    /\ UNCHANGED <<current_block_, height_, checkpoints_, stop_flag, clock,
                   vb_index, vb_now, previous_run>>

\* check_block is invoked again on the same block, by a validator constructed
\* with another height, other checkpoints and another stop callback.
check_again ==
    /\ vb_pc = "done"
    /\ previous_run' = [result |-> vb_result, now |-> vb_now,
                        height |-> height_]
    /\ \E context \in Contexts :
          /\ height_' = context.height
          /\ checkpoints_' = context.checkpoints
    /\ stop_flag' = FALSE
    /\ vb_pc' = "size_limits"
    /\ vb_index' = 1
    /\ vb_result' = "none"
    /\ vb_line' = 0
    /\ vb_now' = -1
    /\ UNCHANGED <<current_block_, clock>>

\* The other subsystems do not move while a block is checked.
CheckOnly ==
    UNCHANGED <<utxoVars, chainVars, connectVars, acceptVars, lockVars,
                locatorVars>>

CheckNext ==
    \/ stop_requested /\ CheckOnly
    \/ tick /\ CheckOnly
    \/ return_if_stopped /\ CheckOnly
    \/ check_size_limits /\ CheckOnly
    \/ check_proof_of_work /\ CheckOnly
    \/ check_time_stamp /\ CheckOnly
    \/ check_first_coinbase /\ CheckOnly
    \/ check_extra_coinbases /\ CheckOnly
    \/ check_transactions /\ CheckOnly
    \/ check_distinct /\ CheckOnly
    \/ check_sigops /\ CheckOnly
    \/ check_merkle /\ CheckOnly
    \/ check_again /\ CheckOnly

(***************************************************************************)
(*               validate_block::connect_block and chain view              *)
(***************************************************************************)

coinbase_maturity == 100

\* The width of size_t, scaled down: heights are far below it.
SizeModulus == 65536

\* The persistent chain's fork point in the modelled runs.
ForkIndex == 100

\* A script the script verifier rejects, and a pay-to-script-hash output.
BadSigScript == << <<"bad_signature", 1>> >>
ScriptHashScript == << <<"hash160_equal", 1>> >>

\* Transactions of the persistent chain: one with two outputs, a coinbase,
\* and the spender the spend index names.
PrevA ==
    [hash |-> 10, size |-> 200,
     inputs |-> << [previous_output |-> [hash |-> 9, index |-> 0],
                    script |-> NopScript(1)] >>,
     outputs |-> << [value |-> 30, script |-> NopScript(1)],
                    [value |-> 20, script |-> NopScript(1)] >>]

PrevCoinbase ==
    [hash |-> 11, size |-> 100,
     inputs |-> << [previous_output |-> NullPoint, script |-> NopScript(2)] >>,
     outputs |-> << [value |-> 50, script |-> NopScript(1)] >>]

\* A transaction of the persistent chain with a pay-to-script-hash output.
PrevScriptHash ==
    [hash |-> 13, size |-> 100,
     inputs |-> << [previous_output |-> [hash |-> 9, index |-> 1],
                    script |-> NopScript(1)] >>,
     outputs |-> << [value |-> 10, script |-> ScriptHashScript] >>]

Spender ==
    [hash |-> 12, size |-> 100,
     inputs |-> << [previous_output |-> [hash |-> 22, index |-> 0],
                    script |-> NopScript(1)] >>,
     outputs |-> << [value |-> 20, script |-> NopScript(1)] >>]

\* The transactions of the blocks connect_block is run on.
CoinbaseBig ==
    [hash |-> 6, size |-> 100,
     inputs |-> << [previous_output |-> NullPoint, script |-> NopScript(2)] >>,
     outputs |-> << [value |-> 55, script |-> SigScript(1)] >>]

TwoIn ==
    [hash |-> 20, size |-> 300,
     inputs |-> << [previous_output |-> [hash |-> 10, index |-> 0],
                    script |-> NopScript(1)],
                   [previous_output |-> [hash |-> 10, index |-> 1],
                    script |-> NopScript(1)] >>,
     outputs |-> << [value |-> 40, script |-> SigScript(1)] >>]

TwoInBad ==
    [hash |-> 21, size |-> 300,
     inputs |-> << [previous_output |-> [hash |-> 10, index |-> 0],
                    script |-> NopScript(1)],
                   [previous_output |-> [hash |-> 10, index |-> 1],
                    script |-> BadSigScript] >>,
     outputs |-> << [value |-> 40, script |-> SigScript(1)] >>]

OneIn ==
    [hash |-> 22, size |-> 200,
     inputs |-> << [previous_output |-> [hash |-> 10, index |-> 1],
                    script |-> NopScript(1)] >>,
     outputs |-> << [value |-> 20, script |-> SigScript(1)] >>]

Overspend ==
    [hash |-> 23, size |-> 200,
     inputs |-> << [previous_output |-> [hash |-> 10, index |-> 0],
                    script |-> NopScript(1)] >>,
     outputs |-> << [value |-> 31, script |-> SigScript(1)] >>]

SpendCoinbase ==
    [hash |-> 24, size |-> 200,
     inputs |-> << [previous_output |-> [hash |-> 11, index |-> 0],
                    script |-> NopScript(1)] >>,
     outputs |-> << [value |-> 50, script |-> SigScript(1)] >>]

\* It redeems the pay-to-script-hash output with a script of 20,001
\* signature operations, which the legacy count does not see.
SpendScriptHash ==
    [hash |-> 25, size |-> 200,
     inputs |-> << [previous_output |-> [hash |-> 13, index |-> 0],
                    script |-> << <<"push", 1,
                        SigScript(max_block_script_sig_operations + 1)>> >>] >>,
     outputs |-> << [value |-> 10, script |-> NopScript(1)] >>]

\* It spends the coinbase of the earlier block of the orphan branch.
SpendOrphanCoinbase ==
    [hash |-> 26, size |-> 200,
     inputs |-> << [previous_output |-> [hash |-> 30, index |-> 0],
                    script |-> NopScript(1)] >>,
     outputs |-> << [value |-> 50, script |-> NopScript(1)] >>]

\* It spends the output of OneIn, a transaction of the same block when the
\* block holds both.
SpendOneIn ==
    [hash |-> 27, size |-> 200,
     inputs |-> << [previous_output |-> [hash |-> 22, index |-> 0],
                    script |-> NopScript(1)] >>,
     outputs |-> << [value |-> 20, script |-> NopScript(1)] >>]

\* It names a third output of PrevA, which has two.
SpendBeyond ==
    [hash |-> 28, size |-> 200,
     inputs |-> << [previous_output |-> [hash |-> 10, index |-> 2],
                    script |-> NopScript(1)] >>,
     outputs |-> << [value |-> 1, script |-> NopScript(1)] >>]

ConnectCoinbases == {Coinbase1, CoinbaseBig}
ConnectTxs == {TwoIn, TwoInBad, OneIn, Overspend, SpendCoinbase,
               SpendScriptHash, SpendOrphanCoinbase, SpendOneIn, SpendBeyond}

\* The blocks connect_block is run on have passed check_block's structural
\* checks: a coinbase first, no other coinbase, distinct hashes.
ConnectBlocks ==
    { [header |-> [version |-> v, bits |-> 258, hash |-> 5, timestamp |-> 0,
                   merkle |-> generate_merkle_root(<<c>> \o txs)],
       transactions |-> <<c>> \o txs] :
          v \in {1, 4}, c \in ConnectCoinbases,
          txs \in { t \in SeqsUpTo(ConnectTxs, MaxBlockTxs - 1) :
                        is_distinct_tx_set(t) } }

\* An earlier block of the orphan branch; it spends the second output of PrevA.
ParentOrphan ==
    [header |-> [version |-> 1, bits |-> 258, hash |-> 4, timestamp |-> 0,
                 merkle |-> 0],
     transactions |->
        << [hash |-> 30, size |-> 100,
            inputs |-> << [previous_output |-> NullPoint,
                           script |-> NopScript(2)] >>,
            outputs |-> << [value |-> 50, script |-> NopScript(1)] >>],
           [hash |-> 31, size |-> 200,
            inputs |-> << [previous_output |-> [hash |-> 10, index |-> 1],
                           script |-> NopScript(1)] >>,
            outputs |-> << [value |-> 20, script |-> NopScript(1)] >>] >>]

\* The database states: PrevA and a coinbase (mature or not) below the fork
\* point; optionally an earlier copy of OneIn whose output is spent, by a
\* spender on the chain or by one above the fork point.
Interfaces ==
    { [transactions |->
           (10 :> [transaction |-> PrevA, height |-> 1])
        @@ (11 :> [transaction |-> PrevCoinbase, height |-> cb_height])
        @@ (13 :> [transaction |-> PrevScriptHash, height |-> 1])
        @@ (IF dup = "none" THEN <<>>
            ELSE (22 :> [transaction |-> OneIn, height |-> 3])
              @@ (12 :> [transaction |-> Spender,
                         height |-> IF dup = "spent" THEN 4
                                    ELSE ForkIndex + 1])),
       spends |->
           IF dup = "none" THEN <<>>
           ELSE ([hash |-> 22, index |-> 0] :> 12)] :
          cb_height \in {1, 2}, dup \in {"none", "spent", "stale"} }

\* The soft forks connect_block depends on.
ActivationSets == { {}, {"bip30_enabled"} }

version_1 == 1
version_2 == 2
version_3 == 3
version_4 == 4

\* validate_block::is_active: the flag is in activations_ and the block's
\* version is that of one of the three version-gated soft forks.
is_active(flag) ==
    /\ flag \in activations_
    /\ \/ (flag = "bip65_enabled"
              /\ current_block_.header.version >= version_4)
       \/ (flag = "bip66_enabled"
              /\ current_block_.header.version >= version_3)
       \/ (flag = "bip34_enabled"
              /\ current_block_.header.version >= version_2)

\* tx_after_fork
tx_after_fork(tx_height, fork_index) == tx_height > fork_index

\* validate_block_impl::transaction_exists
transaction_exists(tx_hash) ==
    /\ tx_hash \in DOMAIN interface_.transactions
    /\ ~tx_after_fork(interface_.transactions[tx_hash].height, fork_index_)

\* validate_block_impl::is_output_spent(outpoint): the committed spends
is_output_spent_committed(outpoint) ==
    /\ outpoint \in DOMAIN interface_.spends
    /\ transaction_exists(interface_.spends[outpoint])

\* The unspent outputs the database keeps for simple_chain: the outputs of
\* the transactions of the chain, blocks above the fork point included, that
\* no transaction of the chain spends.
utxo_set ==
    UNION { { [hash |-> tx_hash, index |-> index] :
                index \in 0..(Len(interface_.transactions[tx_hash]
                                      .transaction.outputs) - 1) } :
            tx_hash \in DOMAIN interface_.transactions }
        \ DOMAIN interface_.spends

\* simple_chain::contains_outpoint_in_utxo
contains_outpoint_in_utxo(outpoint) == outpoint \in utxo_set

\* validate_block_impl::is_output_spent(outpoint) of the adapter over
\* simple_chain (src/src/validate_block_impl.cpp): it returns fer_method.
is_output_spent_utxo(outpoint) == ~contains_outpoint_in_utxo(outpoint)

\* The mutant searches the block under validation only.
orphan_is_spent_current_block_only(previous_output, skip_tx, skip_input) ==
    \E t \in 1..Len(orphan_chain_[orphan_index_ + 1].transactions) :
        \E i \in 1..Len(orphan_chain_[orphan_index_ + 1].transactions[t].inputs) :
            /\ ~(t = skip_tx /\ i = skip_input)
            /\ orphan_chain_[orphan_index_ + 1].transactions[t].inputs[i]
                   .previous_output = previous_output

\* validate_block_impl::orphan_is_spent; positions are 1-based here
orphan_is_spent(previous_output, skip_tx, skip_input) ==
    \E orphan \in 1..(orphan_index_ + 1) :
        \E t \in 1..Len(orphan_chain_[orphan].transactions) :
            \E i \in 1..Len(orphan_chain_[orphan].transactions[t].inputs) :
                /\ ~( /\ orphan = orphan_index_ + 1
                      /\ t = skip_tx
                      /\ i = skip_input )
                /\ orphan_chain_[orphan].transactions[t].inputs[i]
                       .previous_output = previous_output

\* validate_block_impl::is_output_spent(previous_output, index_in_parent,
\* input_index)
is_output_spent(previous_output, index_in_parent, input) ==
    \/ is_output_spent_committed(previous_output)
    \/ orphan_is_spent(previous_output, index_in_parent, input)

NotFetched == [found |-> FALSE]

\* validate_block_impl::fetch_orphan_transaction: the first transaction of the
\* branch, up to and including the block itself, with the hash.
OrphanPositions(tx_hash) ==
    UNION { { <<orphan, t>> :
                t \in { u \in 1..Len(orphan_chain_[orphan].transactions) :
                            hash_transaction(
                                orphan_chain_[orphan].transactions[u])
                                    = tx_hash } } :
            orphan \in 1..(orphan_index_ + 1) }

fetch_orphan_transaction(tx_hash) ==
    IF OrphanPositions(tx_hash) = {} THEN NotFetched
    ELSE LET first == CHOOSE p \in OrphanPositions(tx_hash) :
                          \A q \in OrphanPositions(tx_hash) :
                              \/ p[1] < q[1]
                              \/ (p[1] = q[1] /\ p[2] <= q[2])
         IN  [found |-> TRUE,
              transaction |-> orphan_chain_[first[1]].transactions[first[2]],
              height |-> fork_index_ + (first[1] - 1) + 1]

\* validate_block_impl::fetch_transaction
fetch_transaction(tx_hash) ==
    IF \/ tx_hash \notin DOMAIN interface_.transactions
       \/ tx_after_fork(interface_.transactions[tx_hash].height, fork_index_)
    THEN fetch_orphan_transaction(tx_hash)
    ELSE [found |-> TRUE,
          transaction |-> interface_.transactions[tx_hash].transaction,
          height |-> interface_.transactions[tx_hash].height]

\* validate_block::is_spent_duplicate
is_spent_duplicate(tx) ==
    /\ transaction_exists(hash_transaction(tx))
    /\ \A output_index \in 0..(Len(tx.outputs) - 1) :
           is_output_spent_committed([hash |-> hash_transaction(tx),
                                      index |-> output_index])

\* parse_script of the data of a script's last operation: a run
\* <<"push", 1, script>> carries a serialized script, and a run
\* <<"push", 1, script, "end_of_stream">> data that does not parse.
parse_script(operation) ==
    IF Len(operation) >= 3 THEN operation[3] ELSE <<>>

parse_script_throws(operation) == Len(operation) >= 4

\* script_hash_signature_operations_count; -1 stands for the end_of_stream
\* exception.
script_hash_signature_operations_count(output_script, input_script) ==
    IF output_script # ScriptHashScript THEN 0
    ELSE IF input_script = <<>> THEN 0
    ELSE IF parse_script_throws(input_script[Len(input_script)]) THEN -1
    ELSE count_script_sigops(parse_script(input_script[Len(input_script)]),
                             TRUE, "bad_operation")

\* validate_transaction::check_consensus: the script verifier
check_consensus(prevout_script, current_tx, input) ==
    current_tx.inputs[input].script # BadSigScript

\* The mutant measures the age of the coinbase from the fork point.
height_difference_from_fork(height, previous_height) ==
    (fork_index_ - previous_height) % SizeModulus

\* height_ - previous_height in size_t
height_difference(height, previous_height) ==
    (height - previous_height) % SizeModulus

\* What connect_input returns and leaves in value_in and total_sigops.
InputResult(ok, why, value, sigops) ==
    [ok |-> ok, why |-> why, value_in |-> value, total_sigops |-> sigops]

\* The mutant adds the pay-to-script-hash count without comparing the total
\* with the limit.
connect_fetched_input_no_limit(index_in_parent, current_tx, input, previous, previous_tx_out, value, sigops) ==
    LET script_sigops ==
            script_hash_signature_operations_count(
                previous_tx_out.script, current_tx.inputs[input].script)
        output_value == previous_tx_out.value
    IN  IF script_sigops = -1
        THEN InputResult(FALSE, "invalid_eval_script", value, sigops)
        ELSE IF output_value > max_money
        THEN InputResult(FALSE, "output_money", value,
                         sigops + script_sigops)
        ELSE IF /\ is_coinbase(previous.transaction)
                /\ height_difference(height_, previous.height)
                       < coinbase_maturity
        THEN InputResult(FALSE, "immature_coinbase", value,
                         sigops + script_sigops)
        ELSE IF ~check_consensus(previous_tx_out.script, current_tx, input)
        THEN InputResult(FALSE, "invalid_consensus", value,
                         sigops + script_sigops)
        ELSE IF is_output_spent(current_tx.inputs[input].previous_output,
                                index_in_parent, input)
        THEN InputResult(FALSE, "double_spend", value,
                         sigops + script_sigops)
        ELSE IF value + output_value > max_money
        THEN InputResult(FALSE, "input_money", value + output_value,
                         sigops + script_sigops)
        ELSE InputResult(TRUE, "connected", value + output_value,
                         sigops + script_sigops)

\* validate_block::connect_input after the previous transaction was fetched
\* and previous_tx_out read from it
connect_fetched_input(index_in_parent, current_tx, input, previous, previous_tx_out, value, sigops) ==
    LET script_sigops ==
            script_hash_signature_operations_count(
                previous_tx_out.script, current_tx.inputs[input].script)
        output_value == previous_tx_out.value
    IN  IF script_sigops = -1
        THEN InputResult(FALSE, "invalid_eval_script", value, sigops)
        ELSE IF sigops + script_sigops > max_block_script_sig_operations
        THEN InputResult(FALSE, "too_many_sigs", value,
                         sigops + script_sigops)
        ELSE IF output_value > max_money
        THEN InputResult(FALSE, "output_money", value,
                         sigops + script_sigops)
        ELSE IF /\ is_coinbase(previous.transaction)
                /\ height_difference(height_, previous.height)
                       < coinbase_maturity
        THEN InputResult(FALSE, "immature_coinbase", value,
                         sigops + script_sigops)
        ELSE IF ~check_consensus(previous_tx_out.script, current_tx, input)
        THEN InputResult(FALSE, "invalid_consensus", value,
                         sigops + script_sigops)
        ELSE IF is_output_spent(current_tx.inputs[input].previous_output,
                                index_in_parent, input)
        THEN InputResult(FALSE, "double_spend", value,
                         sigops + script_sigops)
        ELSE IF value + output_value > max_money
        THEN InputResult(FALSE, "input_money", value + output_value,
                         sigops + script_sigops)
        ELSE InputResult(TRUE, "connected", value + output_value,
                         sigops + script_sigops)

\* What previous_tx.outputs[previous_output.index] can read: the output, or,
\* with the index outside the list, whatever lies behind it; the read can
\* also end the process.
OutOfRangeOutputs ==
    { [value |-> 0, script |-> NopScript(1)],
      [value |-> max_money + 1, script |-> NopScript(1)],
      [value |-> 1, script |-> ScriptHashScript] }

outputs_read(previous_tx, index) ==
    IF index < Len(previous_tx.outputs)
    THEN { previous_tx.outputs[index + 1] }
    ELSE OutOfRangeOutputs

\* validate_block::connect_input: the results it can return
connect_input(index_in_parent, current_tx, input, value, sigops) ==
    LET previous ==
            fetch_transaction(current_tx.inputs[input].previous_output.hash)
    IN  IF ~previous.found
        THEN { InputResult(FALSE, "not_fetched", value, sigops) }
        ELSE { connect_fetched_input(index_in_parent, current_tx, input,
                                     previous, previous_tx_out, value, sigops) :
                   previous_tx_out \in
                       outputs_read(previous.transaction,
                           current_tx.inputs[input].previous_output.index) }
             \cup
             ( IF current_tx.inputs[input].previous_output.index
                      < Len(previous.transaction.outputs)
               THEN {}
               ELSE { InputResult(FALSE, "aborted", value, sigops) } )

\* validate_transaction::tally_fees: the fee of the transaction, or -1 when
\* the outputs exceed the inputs
tally_fees(tx, value, total_fees) ==
    IF value < total_output_value(tx.outputs) THEN -1
    ELSE total_fees + (value - total_output_value(tx.outputs))

\* block_value: the subsidy in whole coins, halved every 210000 blocks
RECURSIVE halve(_, _)
halve(value, times) ==
    IF times = 0 \/ value = 0 THEN value ELSE halve(value \div 2, times - 1)

block_value(height) == halve(50, height \div 210000)

\* connect_block's program points at which RETURN_IF_STOPPED() stands.
ConnectStoppedPcs == {"stopped_510", "stopped_533", "stopped_542",
                      "stopped_549", "stopped_558"}

ConnectStoppedLine(pc) ==
    CASE pc = "stopped_510" -> 510
      [] pc = "stopped_533" -> 533
      [] pc = "stopped_542" -> 542
      [] pc = "stopped_549" -> 549
      [] pc = "stopped_558" -> 558

NotStopped == [pc |-> "none", tx_index |-> 0, input_index |-> 0]

\* The validator's own variables when connect_block is what runs.
ValidatorConnecting ==
    /\ checkpoints_ = <<>>
    /\ stop_flag = FALSE
    /\ clock = 0
    /\ vb_pc = "done"
    /\ vb_index = 1
    /\ vb_result = "none"
    /\ vb_line = 0
    /\ vb_now = -1
    /\ previous_run = NoRun

\* validate_block_impl::validate_block_impl for the last block of an orphan
\* branch above the fork point; connect_block has not begun.
ConnectInit ==
    /\ current_block_ \in ConnectBlocks
    /\ interface_ \in Interfaces
    /\ fork_index_ = ForkIndex
    /\ orphan_chain_ \in { <<current_block_>>, <<ParentOrphan, current_block_>> }
    /\ orphan_index_ = Len(orphan_chain_) - 1
    /\ height_ = fork_index_ + orphan_index_ + 1
    /\ activations_ \in ActivationSets
    /\ cb_pc = "start"
    /\ tx_index = 1
    /\ input_index = 1
    /\ value_in = 0
    /\ total_sigops = 0
    /\ fees = 0
    /\ cb_result = "none"
    /\ cb_line = 0
    /\ connected = {}
    /\ stopped_at = NotStopped
    /\ ValidatorConnecting

\* The variables connect_block only reads.
ConnectView == <<current_block_, height_, checkpoints_, clock, vb_pc,
                 vb_index, vb_result, vb_line, vb_now, previous_run,
                 interface_, fork_index_, orphan_chain_, orphan_index_,
                 activations_>>

\* connect_block returns `ec` from the return statement at `line`.
ConnectReturn(ec, line) ==
    /\ cb_pc' = "done"
    /\ cb_result' = ec
    /\ cb_line' = line

\* connect_block goes on to program point `pc` at transaction `tx`.
ConnectGoto(pc, tx) ==
    /\ cb_pc' = pc
    /\ tx_index' = tx
    /\ UNCHANGED <<cb_result, cb_line>>

\* The head of the transaction loop (line 522): the next transaction if
\* there is one, the consultation after the loop otherwise.
NextTransaction ==
    IF tx_index < Len(current_block_.transactions)
    THEN ConnectGoto("sigops", tx_index + 1)
    ELSE ConnectGoto("stopped_558", tx_index)

\* The stop callback starts answering true while connect_block runs.
stop_requested_connecting ==
    /\ ~stop_flag
    /\ cb_pc \notin {"done", "idle"}
    /\ stop_flag' = TRUE
    /\ stopped_at' = [pc |-> cb_pc, tx_index |-> tx_index,
                      input_index |-> input_index]
    /\ UNCHANGED <<ConnectView, cb_pc, tx_index, input_index, value_in,
                   total_sigops, fees, cb_result, cb_line, connected>>

\* connect_block, lines 499-519: the test of line 502, one iteration of the
\* loop of lines 505-508 when the test passed, and the initialisation of
\* fees and total_sigops.
connect_block_begin ==
    /\ cb_pc \in {"start", "bip30"}
    /\ IF cb_pc = "start" /\ ~is_active("bip30_enabled")
       THEN ConnectGoto("sigops", 1)
       ELSE IF is_spent_duplicate(current_block_.transactions[tx_index])
       THEN ConnectReturn("duplicate_or_spent", 508) /\ UNCHANGED tx_index
       ELSE ConnectGoto("stopped_510", tx_index)
    /\ fees' = 0
    /\ total_sigops' = 0
    /\ UNCHANGED <<ConnectView, stop_flag, input_index, value_in, connected,
                   stopped_at>>

\* RETURN_IF_STOPPED() in connect_block
connect_return_if_stopped ==
    /\ cb_pc \in ConnectStoppedPcs
    /\ IF stop_flag
       THEN /\ ConnectReturn("service_stopped", ConnectStoppedLine(cb_pc))
            /\ UNCHANGED <<tx_index, input_index>>
       ELSE CASE cb_pc = "stopped_510" ->
                    /\ IF tx_index < Len(current_block_.transactions)
                       THEN ConnectGoto("bip30", tx_index + 1)
                       ELSE ConnectGoto("sigops", 1)
                    /\ UNCHANGED input_index
              [] cb_pc = "stopped_533" ->
                    ConnectGoto("is_coinbase", tx_index)
                        /\ UNCHANGED input_index
              [] cb_pc = "stopped_542" ->
                    /\ IF current_block_.transactions[tx_index].inputs = <<>>
                       THEN ConnectGoto("stopped_549", tx_index)
                       ELSE ConnectGoto("connect_input", tx_index)
                    /\ input_index' = 1
              [] cb_pc = "stopped_549" ->
                    ConnectGoto("tally_fees", tx_index)
                        /\ UNCHANGED input_index
              [] cb_pc = "stopped_558" ->
                    ConnectGoto("coinbase_value", tx_index)
                        /\ UNCHANGED input_index
    /\ UNCHANGED <<ConnectView, stop_flag, value_in, total_sigops, fees,
                   connected, stopped_at>>

\* connect_block, lines 524-530
connect_sigops ==
    LET tx == current_block_.transactions[tx_index]
    IN  /\ cb_pc = "sigops"
        /\ value_in' = 0
        /\ total_sigops' = total_sigops + legacy_sigops_count(tx)
        /\ IF total_sigops' > max_block_script_sig_operations
           THEN ConnectReturn("too_many_sigs", 530) /\ UNCHANGED tx_index
           ELSE ConnectGoto("stopped_533", tx_index)
        /\ UNCHANGED <<ConnectView, stop_flag, input_index, fees, connected,
                       stopped_at>>

\* connect_block, lines 537-538
connect_is_coinbase ==
    /\ cb_pc = "is_coinbase"
    /\ IF is_coinbase(current_block_.transactions[tx_index])
       THEN NextTransaction
       ELSE ConnectGoto("stopped_542", tx_index)
    /\ UNCHANGED <<ConnectView, stop_flag, input_index, value_in,
                   total_sigops, fees, connected, stopped_at>>

\* The mutant tallies the fees without RETURN_IF_STOPPED() after the inputs.
validate_inputs_no_stopped ==
    LET tx == current_block_.transactions[tx_index]
    IN  /\ cb_pc = "connect_input"
        /\ \E result \in connect_input(tx_index, tx, input_index, value_in,
                                       total_sigops) :
              /\ value_in' = result.value_in
              /\ total_sigops' = result.total_sigops
              /\ IF result.why = "aborted"
                 THEN /\ ConnectReturn("aborted", 661)
                      /\ UNCHANGED <<tx_index, input_index, connected>>
                 ELSE IF ~result.ok
                 THEN /\ ConnectReturn("validate_inputs_failed", 546)
                      /\ UNCHANGED <<tx_index, input_index, connected>>
                 ELSE /\ connected' = connected \cup {<<tx_index, input_index>>}
                      /\ IF input_index < Len(tx.inputs)
                         THEN /\ ConnectGoto("connect_input", tx_index)
                              /\ input_index' = input_index + 1
                         ELSE /\ ConnectGoto("tally_fees", tx_index)
                              /\ UNCHANGED input_index
        /\ UNCHANGED <<ConnectView, stop_flag, fees, stopped_at>>

\* validate_inputs, lines 603-613: one iteration, connect_input included; its
\* failure is connect_block's return at line 546, and after the last input
\* connect_block goes on to line 549.
validate_inputs ==
    LET tx == current_block_.transactions[tx_index]
    IN  /\ cb_pc = "connect_input"
        /\ \E result \in connect_input(tx_index, tx, input_index, value_in,
                                       total_sigops) :
              /\ value_in' = result.value_in
              /\ total_sigops' = result.total_sigops
              /\ IF result.why = "aborted"
                 THEN /\ ConnectReturn("aborted", 661)
                      /\ UNCHANGED <<tx_index, input_index, connected>>
                 ELSE IF ~result.ok
                 THEN /\ ConnectReturn("validate_inputs_failed", 546)
                      /\ UNCHANGED <<tx_index, input_index, connected>>
                 ELSE /\ connected' = connected \cup {<<tx_index, input_index>>}
                      /\ IF input_index < Len(tx.inputs)
                         THEN /\ ConnectGoto("connect_input", tx_index)
                              /\ input_index' = input_index + 1
                         ELSE /\ ConnectGoto("stopped_549", tx_index)
                              /\ UNCHANGED input_index
        /\ UNCHANGED <<ConnectView, stop_flag, fees, stopped_at>>

\* connect_block, lines 551-552
connect_tally_fees ==
    LET tx == current_block_.transactions[tx_index]
    IN  /\ cb_pc = "tally_fees"
        /\ IF tally_fees(tx, value_in, fees) = -1
           THEN /\ ConnectReturn("fees_out_of_range", 552)
                /\ UNCHANGED <<tx_index, fees>>
           ELSE /\ fees' = tally_fees(tx, value_in, fees)
                /\ NextTransaction
        /\ UNCHANGED <<ConnectView, stop_flag, input_index, value_in,
                       total_sigops, connected, stopped_at>>

\* connect_block, lines 560-571
connect_coinbase_value ==
    LET coinbase == current_block_.transactions[1]
        coinbase_value == total_output_value(coinbase.outputs)
    IN  /\ cb_pc = "coinbase_value"
        /\ IF coinbase_value > block_value(height_) + fees
           THEN ConnectReturn("coinbase_too_large", 567)
           ELSE ConnectReturn("success", 571)
        /\ UNCHANGED <<ConnectView, stop_flag, tx_index, input_index,
                       value_in, total_sigops, fees, connected, stopped_at>>

\* The other subsystems do not move while a block is connected.
ConnectOnly == UNCHANGED <<utxoVars, chainVars, acceptVars, lockVars, locatorVars>>

ConnectNext ==
    \/ stop_requested_connecting /\ ConnectOnly
    \/ connect_block_begin /\ ConnectOnly
    \/ connect_return_if_stopped /\ ConnectOnly
    \/ connect_sigops /\ ConnectOnly
    \/ connect_is_coinbase /\ ConnectOnly
    \/ validate_inputs /\ ConnectOnly
    \/ connect_tally_fees /\ ConnectOnly
    \/ connect_coinbase_value /\ ConnectOnly

\* The chain view and connect_block's variables while another subsystem is
\* exercised.
ConnectIdle ==
    /\ interface_ = [transactions |-> <<>>, spends |-> <<>>]
    /\ fork_index_ = 0
    /\ orphan_chain_ = <<>>
    /\ orphan_index_ = 0
    /\ activations_ = {}
    /\ cb_pc = "idle"
    /\ tx_index = 1
    /\ input_index = 1
    /\ value_in = 0
    /\ total_sigops = 0
    /\ fees = 0
    /\ cb_result = "none"
    /\ cb_line = 0
    /\ connected = {}
    /\ stopped_at = NotStopped

(***************************************************************************)
(* validate_block::initialize_context and accept_block, over the chain     *)
(* view of validate_block_impl (src/src/validate_block.cpp,                *)
(* src/src/implementation/validate_block_impl.cpp).                        *)
(***************************************************************************)

\* The number of headers below the first candidate the model keeps: no
\* function of the validator reads further back than that.
Window == 5

\* The version sample and its thresholds (1000/950/750, testnet 100/75/51),
\* scaled down to the window.
sample == IF testnet THEN 4 ELSE 5
enforced == IF testnet THEN 3 ELSE 4
activated == IF testnet THEN 2 ELSE 3

bip16_activation_height == IF testnet THEN 514 ELSE 173805
bip30_exception_height1 == IF testnet THEN 0 ELSE 91842
bip30_exception_height2 == IF testnet THEN 0 ELSE 91880

\* Retargeting: the target spacing (600 s) and time span (two weeks), scaled
\* down so that the interval is four blocks.
target_spacing == 10
target_timespan == 4 * target_spacing
readjustment_interval == target_timespan \div target_spacing

\* Header timestamps are unsigned and wrap (2^32 in the source).
TimeModulus == 256

\* The number of timestamps median_time_past reads (11), scaled down.
median_time_past_blocks == 3

max_uint8 == 255
locktime_threshold == 500000000

\* The sequence number of a final input: the largest value of the type
\* (0xFFFFFFFF), here the largest integer of the model checker.
max_sequence == 2147483647

Min(a, b) == IF a < b THEN a ELSE b

\* validate_block_impl::fetch_block: a header of the orphan branch above the
\* fork point, a header of the persistent chain at or below it.
fetch_block(fetch_height) ==
    IF fetch_height > fork_index_
    THEN orphan_chain_[(fetch_height - fork_index_ - 1) + 1].header
    ELSE interface_.blocks[fetch_height]

\* validate_block_impl::previous_block_bits
previous_block_bits == fetch_block(height_ - 1).bits

\* The mutant casts the version to a byte without limiting it first.
preceding_block_versions_wrapped(maximum) ==
    LET size == IF maximum < height_ THEN maximum ELSE height_
    IN  [index \in 1..size |->
            fetch_block(height_ - (index - 1) - 1).version % (max_uint8 + 1)]

\* validate_block_impl::preceding_block_versions: the versions of the blocks
\* height_ - 1 down to height_ - size, each cut to a byte.
preceding_block_versions(maximum) ==
    LET size == Min(maximum, height_)
    IN  [index \in 1..size |->
            Min(fetch_block(height_ - (index - 1) - 1).version, max_uint8)]

\* The mutant counts the versions above `version`.
count_gt(versions, version) ==
    Cardinality({ index \in DOMAIN versions : versions[index] > version })

\* std::count_if over the version vector
count_ge(versions, version) ==
    Cardinality({ index \in DOMAIN versions : versions[index] >= version })

\* validate_block_impl::actual_timespan: a difference of unsigned timestamps
actual_timespan(interval) ==
    (fetch_block(height_ - 1).timestamp
        - fetch_block(height_ - interval).timestamp) % TimeModulus

\* The number of elements of `times` that sort before position `index`.
rank(times, index) ==
    Cardinality({ other \in DOMAIN times :
                      \/ times[other] < times[index]
                      \/ (times[other] = times[index] /\ other < index) })

\* The mutant takes the lower of the two middle elements of an even count.
median_time_past_lower ==
    LET count == Min(height_, median_time_past_blocks)
        times == [i \in 1..count |-> fetch_block(height_ - (i - 1) - 1).timestamp]
    IN  IF count = 0 THEN 0
        ELSE times[CHOOSE index \in 1..count :
                       rank(times, index) = (count - 1) \div 2]

\* validate_block_impl::median_time_past: element size / 2 of the sorted
\* timestamps of the last blocks, 0 when there is none.
median_time_past ==
    LET count == Min(height_, median_time_past_blocks)
        times == [i \in 1..count |-> fetch_block(height_ - (i - 1) - 1).timestamp]
    IN  IF count = 0 THEN 0
        ELSE times[CHOOSE index \in 1..count :
                       rank(times, index) = count \div 2]

\* range_constrain
range_constrain(value, minimum, maximum) ==
    IF value < minimum THEN minimum
    ELSE IF value > maximum THEN maximum ELSE value

\* The testnet lambda of work_required: walk back from height_ to a
\* difficulty change point or to a block whose bits are not max_work_bits.
RECURSIVE last_non_special_bits_from(_)
last_non_special_bits_from(previous_height) ==
    LET previous_block == fetch_block(previous_height - 1)
    IN  IF previous_block.bits # max_work_bits
            \/ (previous_height - 1) % readjustment_interval = 0
        THEN previous_block.bits
        ELSE last_non_special_bits_from(previous_height - 1)

last_non_special_bits == last_non_special_bits_from(height_)

\* The retargeting branch of work_required.
retarget_bits ==
    LET actual == actual_timespan(readjustment_interval)
        constrained == range_constrain(actual, target_timespan \div 4,
                                       target_timespan * 4)
        previous == IF set_compact(previous_block_bits)
                    THEN compact_target(previous_block_bits) ELSE 0
        retarget == (previous * constrained) \div target_timespan
    IN  compact(IF retarget > max_target THEN max_target ELSE retarget)

\* The mutant requires the work the candidate claims.
work_required_claimed_bits == current_block_.header.bits

\* validate_block::work_required
work_required ==
    IF height_ = 0 THEN max_work_bits
    ELSE IF height_ % readjustment_interval # 0
    THEN IF testnet
         THEN LET max_time_gap == (fetch_block(height_ - 1).timestamp
                                      + 2 * target_spacing) % TimeModulus
              IN  IF current_block_.header.timestamp > max_time_gap
                  THEN max_work_bits
                  ELSE last_non_special_bits
         ELSE previous_block_bits
    ELSE retarget_bits

\* is_final of the transaction at a height and a block time.
is_final(tx, block_height, block_time) ==
    \/ tx.locktime = 0
    \/ tx.locktime < (IF tx.locktime < locktime_threshold
                      THEN block_height ELSE block_time)
    \/ \A i \in DOMAIN tx.inputs : tx.inputs[i].sequence = max_sequence

\* checkpoint::validate: a checkpoint at this height names this block.
checkpoint_validate(block_hash, block_height, checks) ==
    \A i \in DOMAIN checks :
        checks[i].height = block_height => checks[i].hash = block_hash

\* validate_block::is_valid_version
is_valid_version == current_block_.header.version >= minimum_version_

\* script_number(value).data(): the little-endian bytes of the magnitude,
\* with a zero byte added when the top bit of the last one is set.
RECURSIVE script_number_bytes(_)
script_number_bytes(value) ==
    IF value = 0 THEN <<>>
    ELSE <<value % 256>> \o script_number_bytes(value \div 256)

script_number_data(value) ==
    LET bytes == script_number_bytes(value)
    IN  IF bytes # <<>> /\ bytes[Len(bytes)] >= 128
        THEN Append(bytes, 0) ELSE bytes

\* save_script: the bytes of the operations <<code, data>>; a push carries
\* the length of its data, the raw data of a coinbase script is kept as is.
RECURSIVE save_script(_)
save_script(operations) ==
    IF operations = <<>> THEN <<>>
    ELSE LET operation == Head(operations)
         IN  (IF operation[1] = "special"
              THEN <<Len(operation[2])>> \o operation[2]
              ELSE operation[2]) \o save_script(Tail(operations))

\* validate_block::is_valid_coinbase_height
is_valid_coinbase_height(height, block) ==
    IF block.transactions = <<>> \/ block.transactions[1].inputs = <<>>
    THEN FALSE
    ELSE LET raw_coinbase == save_script(block.transactions[1].inputs[1].script)
             expect == save_script(<< <<"special", script_number_data(height)>> >>)
         IN  /\ Len(expect) <= Len(raw_coinbase)
             /\ SubSeq(raw_coinbase, 1, Len(expect)) = expect

\* The mutant activates bip16 at the activation height only.
bip16_applies_at_activation_only(height) == height = bip16_activation_height

\* initialize_context, lines 152-154
bip16_applies(height) == height >= bip16_activation_height

\* The mutant knows the first exception height only.
bip30_applies_first_exception_only(height) == height # bip30_exception_height1

\* initialize_context, lines 147-150
bip30_applies(height) ==
    height # bip30_exception_height1 /\ height # bip30_exception_height2

\* ---- the chains and the candidates ----

PrefixHeader(v, b, t) ==
    [version |-> v, bits |-> b, hash |-> 0, timestamp |-> t, merkle |-> 0]

\* The timestamps of the headers below the first candidate, oldest first:
\* ten apart, and with one timestamp far ahead of the others (every
\* timestamp still above the median of the three before it).
Rising == <<100, 110, 120, 130, 140>>
Outlier == <<100, 200, 115, 116, 117>>

\* Their bits: one target throughout, and the least work on the last three.
Steady == <<258, 258, 258, 258, 258>>
Eased == <<258, 258, max_work_bits, max_work_bits, max_work_bits>>

\* The chains below the first candidate: <<versions, bits, timestamps>>.
PrefixRuns ==
    { << <<1, 1, 1, 1, 1>>, Steady, Rising >>,
      << <<2, 2, 2, 1, 1>>, Steady, Rising >>,
      << <<4, 4, 4, 4, 3>>, Steady, Outlier >>,
      << <<2, 257, 3, 3, 2>>, Eased, Rising >>,
      << <<1, 1, 2, 2, 2>>, Eased, Rising >> }

Prefixes ==
    { [i \in 1..Window |-> PrefixHeader(run[1][i], run[2][i], run[3][i])] :
          run \in PrefixRuns }

\* The first heights validated on each network.
StartHeights(network) ==
    IF network THEN {0, 1, 512, 513}
    ELSE {0, 1, 91841, 91879, 173804, 173805}

\* The heights whose accepted block the organizer builds upon, going on to
\* the next block of the branch.
ExtendedHeights(network) ==
    IF network THEN {1, 513} ELSE {1, 91841, 91879, 173805}

\* The persistent chain below `height`: the last headers of the prefix.
PrefixBlocks(prefix, height) ==
    [h \in (height - Min(height, Window))..(height - 1) |->
        prefix[Window - (height - 1 - h)]]

\* A coinbase whose input script is the raw data `bytes`.
AcceptCoinbase(bytes, locktime) ==
    [hash |-> 40, size |-> 100,
     inputs |-> << [previous_output |-> NullPoint,
                    script |-> << <<"raw_data", bytes>> >>,
                    sequence |-> IF locktime = 0 THEN max_sequence ELSE 0] >>,
     outputs |-> << [value |-> 50, script |-> NopScript(1)] >>,
     locktime |-> locktime]

CandidateVersions == {1, 2, 3, 4}
CandidateTimes == {135, 170}
CandidateBits == {152, 258, 264, max_work_bits}

\* The candidate blocks for `height`: the coinbase script starts with the
\* push of the height or of the height before; one candidate is not final.
Candidates(height) ==
    { [header |-> [version |-> v, bits |-> b, hash |-> 5, timestamp |-> t,
                   merkle |-> 0],
       transactions |-> << AcceptCoinbase(
            save_script(<< <<"special", script_number_data(pushed)>> >>)
                \o <<7>>, 0) >>] :
          v \in CandidateVersions, b \in CandidateBits, t \in CandidateTimes,
          pushed \in {height, IF height = 0 THEN 1 ELSE height - 1} }
    \cup
    { [header |-> [version |-> 4, bits |-> b, hash |-> 5, timestamp |-> 170,
                   merkle |-> 0],
       transactions |-> << AcceptCoinbase(
            save_script(<< <<"special", script_number_data(height)>> >>),
            height + 1) >>] : b \in CandidateBits }

\* validate_block::validate_block for a candidate: nothing activated, no
\* minimum version, the callback answering false.
ValidatorConstructed ==
    /\ activations_' = {}
    /\ minimum_version_' = 0
    /\ stop_flag' = FALSE
    /\ vb_pc' = "constructed"
    /\ vb_index' = 1
    /\ vb_result' = "none"
    /\ vb_line' = 0

AcceptInit ==
    /\ testnet \in BOOLEAN
    /\ height_ \in StartHeights(testnet)
    /\ \E prefix \in Prefixes :
          interface_ = [transactions |-> <<>>, spends |-> <<>>,
                        blocks |-> PrefixBlocks(prefix, height_)]
    /\ fork_index_ = IF height_ = 0 THEN 0 ELSE height_ - 1
    /\ current_block_ \in Candidates(height_)
    /\ current_block_.header.bits \in {work_required, max_work_bits}
    /\ orphan_chain_ = <<current_block_>>
    /\ orphan_index_ = 0
    /\ checkpoints_ \in
          IF height_ = 1
          THEN { <<>>, << [height |-> 1, hash |-> 12] >> } ELSE { <<>> }
    /\ activations_ = {}
    /\ minimum_version_ = 0
    /\ was_active = {}
    /\ previous_work = {}
    /\ stop_flag = FALSE
    /\ clock = 0
    /\ vb_pc = "constructed"
    /\ vb_index = 1
    /\ vb_result = "none"
    /\ vb_line = 0
    /\ vb_now = -1
    /\ previous_run = NoRun
    /\ cb_pc = "idle"
    /\ tx_index = 1
    /\ input_index = 1
    /\ value_in = 0
    /\ total_sigops = 0
    /\ fees = 0
    /\ cb_result = "none"
    /\ cb_line = 0
    /\ connected = {}
    /\ stopped_at = NotStopped

\* The variables accept_block only reads.
AcceptView == <<current_block_, height_, checkpoints_, stop_flag, clock,
                vb_now, previous_run, interface_, fork_index_, orphan_chain_,
                orphan_index_, activations_, testnet, minimum_version_,
                was_active>>

ConnectUnused == <<cb_pc, tx_index, input_index, value_in, total_sigops,
                   fees, cb_result, cb_line, connected, stopped_at>>

\* validate_block::initialize_context
initialize_context ==
    /\ vb_pc = "constructed"
    /\ LET versions == preceding_block_versions(sample)
           count_4 == count_ge(versions, version_4)
           count_3 == count_ge(versions, version_3)
           count_2 == count_ge(versions, version_2)
       IN  /\ minimum_version_' =
                  IF count_4 >= enforced THEN version_4
                  ELSE IF count_3 >= enforced THEN version_3
                  ELSE IF count_2 >= enforced THEN version_2
                  ELSE version_1
           /\ activations_' = activations_
                  \cup (IF count_4 >= activated THEN {"bip65_enabled"} ELSE {})
                  \cup (IF count_3 >= activated THEN {"bip66_enabled"} ELSE {})
                  \cup (IF count_2 >= activated THEN {"bip34_enabled"} ELSE {})
                  \cup (IF bip30_applies(height_)
                        THEN {"bip30_enabled"} ELSE {})
                  \cup (IF bip16_applies(height_)
                        THEN {"bip16_enabled"} ELSE {})
    /\ was_active' = was_active \cup { <<flag, height_>> : flag \in activations_' }
    /\ vb_pc' = "work"
    /\ UNCHANGED <<current_block_, height_, checkpoints_, stop_flag, clock,
                   vb_index, vb_result, vb_line, vb_now, previous_run,
                   interface_, fork_index_, orphan_chain_, orphan_index_,
                   testnet, previous_work, ConnectUnused>>

\* What follows a check of accept_block that passed: RETURN_IF_STOPPED(),
\* then the next check.
AcceptPassed(line, pc, index) ==
    IF stop_flag
    THEN Return("service_stopped", line) /\ UNCHANGED vb_index
    ELSE Goto(pc, index)

\* accept_block, lines 365-368
accept_work ==
    /\ vb_pc = "work"
    /\ previous_work' = previous_work
           \cup { <<current_block_.header.timestamp, work_required>> }
    /\ IF current_block_.header.bits # work_required
       THEN Return("incorrect_proof_of_work", 366) /\ UNCHANGED vb_index
       ELSE AcceptPassed(368, "timestamp", 1)
    /\ UNCHANGED <<AcceptView, ConnectUnused>>

\* accept_block, lines 370-373
accept_timestamp ==
    /\ vb_pc = "timestamp"
    /\ IF current_block_.header.timestamp <= median_time_past
       THEN Return("timestamp_too_early", 371) /\ UNCHANGED vb_index
       ELSE IF current_block_.transactions = <<>>
       THEN AcceptPassed(373, "checkpoint", 1)
       ELSE AcceptPassed(373, "final", 1)
    /\ UNCHANGED <<AcceptView, previous_work, ConnectUnused>>

\* accept_block, lines 376-382: one transaction of the loop
accept_final ==
    /\ vb_pc = "final"
    /\ IF ~is_final(current_block_.transactions[vb_index], height_,
                    current_block_.header.timestamp)
       THEN Return("non_final_transaction", 379) /\ UNCHANGED vb_index
       ELSE IF vb_index < Len(current_block_.transactions)
       THEN AcceptPassed(381, "final", vb_index + 1)
       ELSE AcceptPassed(381, "checkpoint", 1)
    /\ UNCHANGED <<AcceptView, previous_work, ConnectUnused>>

\* accept_block, lines 386-390
accept_checkpoint ==
    /\ vb_pc = "checkpoint"
    /\ IF ~checkpoint_validate(hash_block_header(current_block_.header),
                               height_, checkpoints_)
       THEN Return("checkpoints_failed", 388) /\ UNCHANGED vb_index
       ELSE AcceptPassed(390, "version", 1)
    /\ UNCHANGED <<AcceptView, previous_work, ConnectUnused>>

\* accept_block, lines 393-396
accept_version ==
    /\ vb_pc = "version"
    /\ IF ~is_valid_version
       THEN Return("old_version_block", 394) /\ UNCHANGED vb_index
       ELSE AcceptPassed(396, "coinbase_height", 1)
    /\ UNCHANGED <<AcceptView, previous_work, ConnectUnused>>

\* The mutant applies the coinbase-height rule to blocks of every version.
accept_coinbase_height_any_version ==
    /\ vb_pc = "coinbase_height"
    /\ IF "bip34_enabled" \in activations_
            /\ ~is_valid_coinbase_height(height_, current_block_)
       THEN Return("coinbase_height_mismatch", 401)
       ELSE Return("success", 403)
    /\ UNCHANGED <<AcceptView, vb_index, previous_work, ConnectUnused>>

\* accept_block, lines 399-403
accept_coinbase_height ==
    /\ vb_pc = "coinbase_height"
    /\ IF is_active("bip34_enabled")
            /\ ~is_valid_coinbase_height(height_, current_block_)
       THEN Return("coinbase_height_mismatch", 401)
       ELSE Return("success", 403)
    /\ UNCHANGED <<AcceptView, vb_index, previous_work, ConnectUnused>>

\* The stop callback starts answering true while the block is validated.
stop_requested_accepting ==
    /\ ~stop_flag
    /\ vb_pc \notin {"constructed", "done"}
    /\ stop_flag' = TRUE
    /\ UNCHANGED <<current_block_, height_, checkpoints_, clock, vb_pc,
                   vb_index, vb_result, vb_line, vb_now, previous_run,
                   interface_, fork_index_, orphan_chain_, orphan_index_,
                   activations_, acceptVars, ConnectUnused>>

\* The organizer validates the next block of the orphan branch on top of the
\* accepted one; the candidate claims the required work or the least work.
next_block ==
    /\ vb_pc = "done"
    /\ vb_result = "success"
    /\ height_ \in ExtendedHeights(testnet)
    /\ height_' = height_ + 1
    /\ orphan_index_' = orphan_index_ + 1
    /\ UNCHANGED <<interface_, fork_index_, testnet>>
    /\ ~stop_flag
    /\ \E candidate \in Candidates(height_ + 1) :
          /\ current_block_' = candidate
          /\ orphan_chain_' = Append(orphan_chain_, candidate)
    /\ current_block_'.header.bits \in {work_required', max_work_bits}
    /\ previous_work' = {}
    /\ ValidatorConstructed
    /\ UNCHANGED <<checkpoints_, clock, vb_now, previous_run, was_active,
                   ConnectUnused>>

\* Another candidate for the same height arrives over the same chain.
replace_candidate ==
    /\ vb_pc = "done"
    /\ ~stop_flag
    /\ \E candidate \in Candidates(height_) \ {current_block_} :
          /\ current_block_' = candidate
          /\ orphan_chain_' =
                 [orphan_chain_ EXCEPT ![orphan_index_ + 1] = candidate]
    /\ UNCHANGED <<height_, interface_, fork_index_, orphan_index_, testnet>>
    /\ current_block_'.header.bits \in {work_required', max_work_bits}
    /\ ValidatorConstructed
    /\ UNCHANGED <<checkpoints_, clock, vb_now, previous_run, was_active,
                   previous_work, ConnectUnused>>

AcceptOnly == UNCHANGED <<utxoVars, chainVars, lockVars, locatorVars>>

AcceptNext ==
    \/ initialize_context /\ AcceptOnly
    \/ accept_work /\ AcceptOnly
    \/ accept_timestamp /\ AcceptOnly
    \/ accept_final /\ AcceptOnly
    \/ accept_checkpoint /\ AcceptOnly
    \/ accept_version /\ AcceptOnly
    \/ accept_coinbase_height /\ AcceptOnly
    \/ stop_requested_accepting /\ AcceptOnly
    \/ next_block /\ AcceptOnly
    \/ replace_candidate /\ AcceptOnly

(***************************************************************************)
(* Two blockchain_impl instances, each in its own process, over the same   *)
(* database directory (src/unnamed/part_004, lines 46-88).                 *)
(***************************************************************************)

\* The number of instances, and of start() calls of each.
MaxInstances == 2
MaxStarts == 2

Instances == 1..MaxInstances

\* blockchain_impl::blockchain_impl: the lock file is touched, not locked,
\* and the instance is stopped.
Constructed ==
    [pc |-> "idle", stopped_ |-> TRUE, interface_started |-> FALSE,
     returned |-> "none", starts |-> 0]

LockInit ==
    /\ lockfile = 0
    /\ instances = [i \in Instances |-> Constructed]

\* The mutant goes on when the lock file is locked by another process.
start_try_lock_ignored(i) ==
    /\ instances[i].pc = "idle"
    /\ instances[i].starts < MaxStarts
    /\ lockfile' = IF lockfile = 0 THEN i ELSE lockfile
    /\ instances' = [instances EXCEPT ![i].pc = "locked",
                                      ![i].starts = @ + 1]

\* start, lines 73-74: flock_.try_lock() takes the lock file unless another
\* process holds it, and start() returns false when it does not.
start_try_lock(i) ==
    /\ instances[i].pc = "idle"
    /\ instances[i].starts < MaxStarts
    /\ IF lockfile \in {0, i}
       THEN /\ lockfile' = i
            /\ instances' = [instances EXCEPT ![i].pc = "locked",
                                              ![i].starts = @ + 1]
       ELSE /\ UNCHANGED lockfile
            /\ instances' = [instances EXCEPT ![i].returned = "false",
                                              ![i].starts = @ + 1]

\* start, line 77
start_clear_stopped(i) ==
    /\ instances[i].pc = "locked"
    /\ instances' = [instances EXCEPT ![i].pc = "unstopped",
                                      ![i].stopped_ = FALSE]
    /\ UNCHANGED lockfile

\* start, lines 78-79
start_interface(i) ==
    /\ instances[i].pc = "unstopped"
    /\ instances' = [instances EXCEPT ![i].pc = "idle",
                                      ![i].interface_started = TRUE,
                                      ![i].returned = "true"]
    /\ UNCHANGED lockfile

\* blockchain_impl::stop: the lock file stays locked.
instance_stop(i) ==
    /\ instances[i].pc = "idle"
    /\ ~instances[i].stopped_
    /\ instances' = [instances EXCEPT ![i].stopped_ = TRUE]
    /\ UNCHANGED lockfile

\* The instance is destroyed, which closes the lock file and releases the
\* lock, and an instance is constructed again in its place.
instance_replaced(i) ==
    /\ instances[i].pc = "idle"
    /\ instances[i].stopped_
    /\ instances[i].returned # "none"
    /\ instances' = [instances EXCEPT ![i] =
                         [Constructed EXCEPT !.starts = instances[i].starts]]
    /\ lockfile' = IF lockfile = i THEN 0 ELSE lockfile

LockOnly == UNCHANGED <<utxoVars, chainVars, checkVars, connectVars, acceptVars, locatorVars>>

LockNext ==
    \/ \E i \in Instances : start_try_lock(i) /\ LockOnly
    \/ \E i \in Instances : start_clear_stopped(i) /\ LockOnly
    \/ \E i \in Instances : start_interface(i) /\ LockOnly
    \/ \E i \in Instances : instance_stop(i) /\ LockOnly
    \/ \E i \in Instances : instance_replaced(i) /\ LockOnly

(***************************************************************************)
(* blockchain_impl::fetch_locator_blocks (src/unnamed/part_004, lines      *)
(* 228-287): the body of do_fetch, run on the read strand.                 *)
(***************************************************************************)

\* The protocol limit of hashes per reply (500), scaled down.
maximum_get_blocks == 2

\* The largest number of blocks of the chain.
MaxChain == 5

\* The hash of no block of the chain.
UnknownHash == MaxChain + 4

\* The chains: the block at height h has hash h + 1.
BlockTables == { [h \in 1..n |-> h] : n \in 1..MaxChain }

\* The requests.
Locators ==
    [start_hashes : { <<>>, <<UnknownHash>>, <<1>>, <<2>>,
                      <<UnknownHash, 3, 1>> },
     hash_stop : {null_hash, UnknownHash, 3, 5}]
Thresholds == {null_hash, UnknownHash, 2, 4}

\* What the header of a failed lookup hashes to: the result holds no slab,
\* so the read is undefined; it yields some hash or ends the process.
UndefinedHashes == {null_hash, 1, UnknownHash}

Max(a, b) == IF a > b THEN a ELSE b

\* interface_.blocks.get(hash): whether the block is found, and its height.
blocks_found(hash) == \E position \in DOMAIN block_table : block_table[position] = hash
blocks_height(hash) == (CHOOSE position \in DOMAIN block_table : block_table[position] = hash) - 1

\* interface_.blocks.get(index)
blocks_found_at(index) == index + 1 \in DOMAIN block_table

\* Lines 238-248: the height of the first start hash on the chain, else 0.
RECURSIVE first_start(_)
first_start(start_hashes) ==
    IF start_hashes = <<>> THEN 0
    ELSE IF blocks_found(Head(start_hashes))
    THEN blocks_height(Head(start_hashes))
    ELSE first_start(Tail(start_hashes))

\* Lines 250-259: the stop height.
find_stop(start_height, hash_stop) ==
    LET stop_height == start_height + maximum_get_blocks + 1
    IN  IF hash_stop # null_hash /\ blocks_found(hash_stop)
        THEN Min(blocks_height(hash_stop), stop_height)
        ELSE stop_height

\* Lines 261-268: the threshold, when above the start, becomes the start.
threshold_start(start_height, threshold) ==
    IF threshold # null_hash /\ blocks_found(threshold)
    THEN Max(blocks_height(threshold), start_height)
    ELSE start_height

\* Lines 272-282: the loop; `missing` is what the header of the failed lookup
\* hashes to.
RECURSIVE build_hashes(_, _, _, _)
build_hashes(index, stop_height, hashes, missing) ==
    IF index >= stop_height THEN hashes
    ELSE IF ~blocks_found_at(index)
    THEN Append(hashes, missing)
    ELSE build_hashes(index + 1, stop_height, hashes, missing)

\* The loop reaches a height without a block.
reads_missing(start_height, stop_height) ==
    \E index \in (start_height + 1)..(stop_height - 1) :
        ~blocks_found_at(index)

LocatorInit ==
    /\ block_table \in BlockTables
    /\ fetch_locator = [start_hashes |-> <<>>, hash_stop |-> null_hash]
    /\ fetch_threshold = null_hash
    /\ fetch_pc = "idle"
    /\ fetch_start = 0
    /\ fetch_stop = 0
    /\ fetch_hashes = <<>>

\* fetch_locator_blocks: do_fetch is queued on the read strand.
fetch_locator_blocks ==
    /\ fetch_pc \in {"idle", "done"}
    /\ fetch_locator' \in Locators
    /\ fetch_threshold' \in Thresholds
    /\ fetch_pc' = "queued"
    /\ fetch_start' = 0
    /\ fetch_stop' = 0
    /\ fetch_hashes' = <<>>
    /\ UNCHANGED block_table

\* do_fetch, lines 235-284
do_fetch ==
    /\ fetch_pc = "queued"
    /\ LET first == first_start(fetch_locator.start_hashes)
           stop_height == find_stop(first, fetch_locator.hash_stop)
           start_height == threshold_start(first, fetch_threshold)
       IN  /\ fetch_start' = start_height
           /\ fetch_stop' = stop_height
           /\ \E missing \in UndefinedHashes, crashes \in BOOLEAN :
                 IF reads_missing(start_height, stop_height) /\ crashes
                 THEN /\ fetch_pc' = "aborted"
                      /\ fetch_hashes' = <<>>
                 ELSE /\ fetch_pc' = "done"
                      /\ fetch_hashes' = build_hashes(start_height + 1,
                                           stop_height, <<>>, missing)
    /\ UNCHANGED <<block_table, fetch_locator, fetch_threshold>>

\* The chain grows by a block between two requests.
locator_push_block ==
    /\ fetch_pc \in {"idle", "done"}
    /\ Len(block_table) < MaxChain
    /\ block_table' = Append(block_table, Len(block_table) + 1)
    /\ UNCHANGED <<fetch_locator, fetch_threshold, fetch_pc, fetch_start,
                   fetch_stop, fetch_hashes>>

LocatorOnly == UNCHANGED <<utxoVars, chainVars, checkVars, connectVars, acceptVars, lockVars>>

LocatorNext ==
    \/ fetch_locator_blocks /\ LocatorOnly
    \/ do_fetch /\ LocatorOnly
    \/ locator_push_block /\ LocatorOnly

(***************************************************************************)
(*                             Specifications                              *)
(***************************************************************************)

\* The validator's variables while another subsystem is exercised.
CheckIdle ==
    /\ current_block_ = [header |-> [version |-> 1, bits |-> 258, hash |-> 5,
                                     timestamp |-> 0,
                                     merkle |-> 0],
                         transactions |-> <<>>]
    /\ height_ = 0
    /\ checkpoints_ = <<>>
    /\ stop_flag = FALSE
    /\ clock = 0
    /\ vb_pc = "done"
    /\ vb_index = 1
    /\ vb_result = "none"
    /\ vb_line = 0
    /\ vb_now = -1
    /\ previous_run = NoRun

\* The build and the context variables while another subsystem is exercised.
\* No second instance while another subsystem is exercised.
LockIdle ==
    /\ lockfile = 0
    /\ instances = <<>>

\* No locator request while another subsystem is exercised.
LocatorIdle ==
    /\ block_table = <<>>
    /\ fetch_locator = [start_hashes |-> <<>>, hash_stop |-> null_hash]
    /\ fetch_threshold = null_hash
    /\ fetch_pc = "idle"
    /\ fetch_start = 0
    /\ fetch_stop = 0
    /\ fetch_hashes = <<>>

AcceptIdle ==
    /\ testnet = FALSE
    /\ minimum_version_ = 0
    /\ was_active = {}
    /\ previous_work = {}

InitUtxo ==
    /\ UtxoInit /\ ChainInit /\ flock_ = "free"
    /\ CheckIdle /\ ConnectIdle /\ AcceptIdle /\ LockIdle /\ LocatorIdle

SpecUtxo == InitUtxo /\ [][UtxoNext]_vars

InitChain ==
    /\ ChainInit /\ UtxoInit
    /\ CheckIdle /\ ConnectIdle /\ AcceptIdle /\ LockIdle /\ LocatorIdle

SpecChain == InitChain /\ [][ChainNext]_vars

InitCheck ==
    /\ CheckInit /\ UtxoInit /\ ChainInit /\ flock_ = "free"
    /\ ConnectIdle /\ AcceptIdle /\ LockIdle /\ LocatorIdle

SpecCheck == InitCheck /\ [][CheckNext]_vars

InitConnect ==
    /\ ConnectInit /\ UtxoInit /\ ChainInit /\ flock_ = "free"
    /\ AcceptIdle /\ LockIdle /\ LocatorIdle

SpecConnect == InitConnect /\ [][ConnectNext]_vars

InitAccept ==
    /\ AcceptInit /\ UtxoInit /\ ChainInit /\ flock_ = "free" /\ LockIdle
    /\ LocatorIdle

InitLock ==
    /\ LockInit /\ UtxoInit /\ ChainInit /\ flock_ = "free"
    /\ CheckIdle /\ ConnectIdle /\ AcceptIdle /\ LocatorIdle

SpecLock == InitLock /\ [][LockNext]_vars

SpecAccept == InitAccept /\ [][AcceptNext]_vars

\* The scheduling of blockchain_impl: the thread pool runs every handler that
\* is posted or at the head of a strand, and a handler that runs goes on to
\* its next statement.
ChainFairness ==
    /\ WF_chainVars(write_strand_run) /\ WF_chainVars(read_strand_run)
    /\ WF_chainVars(PoolRun) /\ WF_chainVars(DoStoreStoppedCheck)
    /\ WF_chainVars(StartWrite) /\ WF_chainVars(DoStoreFindHeight)
    /\ WF_chainVars(DoStoreOrphansAdd) /\ WF_chainVars(DoStoreOrganize)
    /\ WF_chainVars(PushTransactions) /\ WF_chainVars(PushBlock)
    /\ WF_chainVars(StopWrite) /\ WF_chainVars(TryRead) /\ WF_chainVars(ReadBlocks)
    /\ WF_chainVars(ReadTransactions) /\ WF_chainVars(FinishFetch) /\ WF_chainVars(Sleep)

SpecChainFair == InitChain /\ [][ChainNext]_vars /\ ChainFairness

InitLocator ==
    /\ LocatorInit /\ UtxoInit /\ ChainInit /\ flock_ = "free"
    /\ CheckIdle /\ ConnectIdle /\ AcceptIdle /\ LockIdle

SpecLocator == InitLocator /\ [][LocatorNext]_vars

(***************************************************************************)
(*                                Claims                                   *)
(***************************************************************************)

\* The inpoint get(outpoint) decodes, or NoRecord on a miss.
get_point(outpoint) ==
    IF get(outpoint) = NoRecord THEN NoRecord
    ELSE utxo_result_point(get(outpoint))

\* C1 as stated: immediately after store(o, i), get(o) returns i, and
\* immediately after remove(o), get(o) returns no result, whatever sequence of
\* store and remove operations came before.
C1_GetAfterStoreAndRemove ==
    /\ last_op.op = "store" => get_point(last_op.outpoint) = last_op.utxo
    /\ last_op.op = "remove" => get(last_op.outpoint) = NoRecord

\* C1 amended: immediately after store(o, i), get(o) returns i; immediately
\* after remove(o), get(o) returns no result when o held at most one record,
\* and otherwise the inpoint that the removed record was shadowing.
C1_GetAfterStoreAndRemoveShadowed ==
    /\ last_op.op = "store" => get_point(last_op.outpoint) = last_op.utxo
    /\ last_op.op = "remove" =>
           get_point(last_op.outpoint) =
               IF stored[last_op.outpoint] = <<>> THEN NoRecord
               ELSE Head(stored[last_op.outpoint])

\* A remove of an outpoint stored twice has returned: the older inpoint shows.
C1_Witness ==
    /\ last_op.op = "remove"
    /\ Len(stored[last_op.outpoint]) = 1
    /\ get_point(last_op.outpoint) = Head(stored[last_op.outpoint])

\* C2: once an outpoint has been stored twice without a remove of it in
\* between, get returns the inpoint of the most recent store, also after
\* stores of other outpoints.
C2_GetReturnsMostRecentStore ==
    \A o \in OutPoints :
        Len(stored[o]) >= 2 => get_point(o) = Head(stored[o])

\* An outpoint stored with two different inpoints, then another outpoint of
\* the same bucket stored after it.
C2_Witness ==
    \E o \in OutPoints :
        /\ Len(stored[o]) = 2
        /\ stored[o][1] # stored[o][2]
        /\ last_op.op = "store"
        /\ last_op.outpoint # o
        /\ bucket_for(output_to_hash(last_op.outpoint))
               = bucket_for(output_to_hash(o))
        /\ get_point(o) = stored[o][1]

\* C3 as stated: the table holds at most one record per UTXO key.
C3_AtMostOneRecordPerKey == \A o \in OutPoints : rows_of(o) <= 1

\* C3 amended: the table holds one record per store of the key that no remove
\* has undone; storing an outpoint that is already present adds a second
\* record, which shadows the first, instead of overwriting it.
C3_OneRecordPerOutstandingStore ==
    \A o \in OutPoints : rows_of(o) = Len(stored[o])

\* An outpoint that is present has been stored again: two records for its key.
C3_Witness ==
    /\ last_op.op = "store"
    /\ rows_of(last_op.outpoint) = 2

\* The write tasks whose handler has been invoked by stop_write.
WritesStopped ==
    {t \in TaskIds : tasks[t].kind \in WriteKinds /\ tasks[t].handled}

\* C4: the seqlock counter is odd exactly while a write (do_store or import)
\* is between its start_write and its stop_write, and every write that called
\* start_write and has returned called stop_write exactly once.
C4_SeqlockOddExactlyInWrite ==
    /\ (seqlock_ % 2 = 1) <=> (\E t \in TaskIds : InBody(t))
    /\ seqlock_ = Len(started) + Cardinality(WritesStopped)
    /\ \A t \in TaskIds :
           (tasks[t].kind \in WriteKinds /\ tasks[t].pc = "done")
               => (tasks[t].handled <=> \E i \in 1..Len(started) : started[i] = t)

\* A store has left do_store by the confirmed-duplicate exit after an import.
C4_Witness ==
    \E t \in TaskIds :
        /\ tasks[t].kind = "store"
        /\ tasks[t].pc = "done"
        /\ tasks[t].ec = "duplicate"
        /\ seqlock_ = 4

\* C5: a fetch handler is only given the result of a read attempt during which
\* the counter kept the even value sampled at its start, so the result is not
\* that of a partially applied block.
C5_HandlerGetsCleanRead ==
    \A t \in TaskIds :
        (tasks[t].kind \in ReadKinds /\ tasks[t].handled) =>
            /\ tasks[t].slock % 2 = 0
            /\ ~tasks[t].dirty
            /\ tasks[t].r_blocks # Torn
            /\ tasks[t].r_transactions # Torn
            /\ tasks[t].r_blocks = tasks[t].r_transactions

\* A read attempt that sampled an even counter has been discarded because a
\* write moved the counter, and the reader is about to retry.
C5_Witness ==
    \E t \in TaskIds :
        /\ tasks[t].kind \in ReadKinds
        /\ tasks[t].pc = "sleep"
        /\ tasks[t].slock % 2 = 0
        /\ tasks[t].slock # seqlock_
        /\ ~tasks[t].handled

\* C6: at most one write body executes at any time, and the bodies start in
\* the order in which the writes were queued.
C6_WritesSerializedInOrder ==
    /\ Cardinality({t \in TaskIds : InBody(t)}) <= 1
    /\ \A i, j \in 1..Len(started) : i < j => started[i] < started[j]

\* The second of two queued writes is in its body, after the first finished.
C6_Witness ==
    /\ started = <<1, 2>>
    /\ tasks[1].pc = "done"
    /\ InBody(2)


\* The checks of check_block that a block violates, the timestamp check being
\* made at wall-clock time `now`.
ViolatesSizeLimits(block) ==
    \/ block.transactions = <<>>
    \/ satoshi_raw_size(block) > max_block_size

ViolatesProofOfWork(block) ==
    ~is_valid_proof_of_work(hash_block_header(block.header), block.header.bits)

ViolatesTimestamp(block, now) ==
    ~is_valid_time_stamp(block.header.timestamp, now)

ViolatesFirstCoinbase(block) ==
    block.transactions # <<>> /\ ~is_coinbase(block.transactions[1])

ViolatesExtraCoinbases(block) ==
    \E i \in 2..Len(block.transactions) : is_coinbase(block.transactions[i])

InsaneTransactions(block) ==
    { i \in 1..Len(block.transactions) :
          check_transaction(block.transactions[i]) # "success" }

FirstInsane(block) ==
    CHOOSE i \in InsaneTransactions(block) :
        \A j \in InsaneTransactions(block) : i <= j

ViolatesDistinct(block) ==
    \E i, j \in 1..Len(block.transactions) :
        /\ i # j
        /\ hash_transaction(block.transactions[i])
               = hash_transaction(block.transactions[j])

ViolatesSigops(block) ==
    legacy_sigops_count_list(block.transactions)
        > max_block_script_sig_operations

ViolatesMerkle(block) ==
    block.header.merkle # generate_merkle_root(block.transactions)

\* The error of the earliest violated check in the documented order.
EarliestViolation(block, now) ==
    CASE ViolatesSizeLimits(block) -> "size_limits"
      [] OTHER -> CASE ViolatesProofOfWork(block) -> "proof_of_work"
      [] OTHER -> CASE ViolatesTimestamp(block, now) -> "futuristic_timestamp"
      [] OTHER -> CASE ViolatesFirstCoinbase(block) -> "first_not_coinbase"
      [] OTHER -> CASE ViolatesExtraCoinbases(block) -> "extra_coinbases"
      [] OTHER -> CASE InsaneTransactions(block) # {} ->
                          check_transaction(
                              block.transactions[FirstInsane(block)])
      [] OTHER -> CASE ViolatesDistinct(block) -> "duplicate"
      [] OTHER -> CASE ViolatesSigops(block) -> "too_many_sigs"
      [] OTHER -> CASE ViolatesMerkle(block) -> "merkle_mismatch"
      [] OTHER -> "success"

\* C7: when the stop callback never answers true, check_block returns the
\* error of the earliest violated check in the order size limits, proof of
\* work, futuristic timestamp, first not coinbase, extra coinbases,
\* transaction sanity, duplicate, too many sigops, merkle mismatch, and
\* success iff the block violates none of them.
C7_EarliestViolatedCheck ==
    (vb_pc = "done" /\ ~stop_flag) =>
        /\ vb_result = EarliestViolation(current_block_, vb_now)
        /\ (current_block_.transactions = <<>> => vb_result = "size_limits")

\* check_block has returned extra_coinbases, uncancelled, for a block that
\* also has duplicate transactions and a wrong merkle root.
C7_Witness ==
    /\ vb_pc = "done"
    /\ ~stop_flag
    /\ vb_result = "extra_coinbases"
    /\ ViolatesDistinct(current_block_)
    /\ ViolatesMerkle(current_block_)

\* C8 as stated: two invocations of check_block on the same block return the
\* same result, whatever the wall-clock time, the stop callback, the height
\* and the checkpoints are.
C8_SameBlockSameResult ==
    (vb_pc = "done" /\ previous_run # NoRun) =>
        vb_result = previous_run.result

\* C8: two invocations of check_block on the same block that are not
\* cancelled and read the same wall-clock time at the timestamp check (or both
\* return before it) return the same result, whatever the height and the
\* checkpoints are.
C8_SameBlockTimeAndStopSameResult ==
    ( /\ vb_pc = "done"
      /\ previous_run # NoRun
      /\ vb_result # "service_stopped"
      /\ previous_run.result # "service_stopped"
      /\ vb_now = previous_run.now ) =>
        vb_result = previous_run.result

\* Two uncancelled invocations at different heights have both accepted a
\* timestamp that is valid only at the time they read.
C8_Witness ==
    /\ vb_pc = "done"
    /\ previous_run # NoRun
    /\ previous_run.height # height_
    /\ current_block_.header.timestamp = two_hours + 1
    /\ vb_now = 1
    /\ previous_run.now = 1
    /\ vb_result = "merkle_mismatch"
    /\ previous_run.result = "merkle_mismatch"

\* C9 as stated: between every two consecutive checks the stop callback is
\* consulted: when it answers true as a check passes, no other check is
\* begun, and the consultation returns service_stopped.
C9_StoppedBetweenEveryTwoChecks ==
    [][ (stop_flag /\ vb_pc # "done" /\ vb_pc' # vb_pc) =>
            /\ vb_pc' \notin CheckPcs
            /\ (vb_pc \in StoppedPcs =>
                    vb_pc' = "done" /\ vb_result' = "service_stopped") ]_vars

\* C9: the stop callback is consulted between every two consecutive checks
\* except between the size limits and the proof of work: when it answers true
\* as a check other than the size limits passes, no other check is begun,
\* and the consultation returns service_stopped.
C9_StoppedBetweenChecksAfterProofOfWork ==
    [][ (stop_flag /\ vb_pc \notin {"done", "size_limits"}
                   /\ vb_pc' # vb_pc) =>
            /\ vb_pc' \notin CheckPcs
            /\ (vb_pc \in StoppedPcs =>
                    vb_pc' = "done" /\ vb_result' = "service_stopped") ]_vars

\* check_block has returned service_stopped from the consultation between the
\* distinct-hashes check and the sigop count.
C9_Witness ==
    /\ vb_pc = "done"
    /\ stop_flag
    /\ vb_result = "service_stopped"
    /\ vb_line = 230


\* The stop callback started answering true inside validate_inputs, after at
\* least one input of the transaction was connected and before the next one.
StoppedBetweenInputs ==
    /\ stop_flag
    /\ stopped_at.pc = "connect_input"
    /\ stopped_at.input_index > 1

\* C10 as stated: if stopped becomes true after one input of a multi-input
\* transaction has been connected, no further input of that transaction is
\* connected and connect_block returns service_stopped.
C10_StoppedBetweenInputs ==
    StoppedBetweenInputs =>
        /\ \A pair \in connected :
               pair[1] = stopped_at.tx_index =>
                   pair[2] < stopped_at.input_index
        /\ (cb_pc = "done" => cb_result = "service_stopped")

\* C10: the stop callback is consulted between the steps of a transaction,
\* not between its inputs: if stopped becomes true after one input of a
\* multi-input transaction has been connected, validate_inputs goes on with
\* the remaining inputs; connect_block then returns service_stopped from the
\* consultation after validate_inputs (line 549) with every input of the
\* transaction connected, or validate_inputs_failed when a remaining input
\* fails, and in both cases no input of a later transaction is connected.
C10_StoppedAfterRemainingInputs ==
    (StoppedBetweenInputs /\ cb_pc = "done") =>
        LET inputs ==
                current_block_.transactions[stopped_at.tx_index].inputs
        IN  /\ tx_index = stopped_at.tx_index
            /\ \A pair \in connected : pair[1] <= stopped_at.tx_index
            /\ \/ /\ cb_result = "service_stopped"
                  /\ cb_line = 549
                  /\ \A k \in 1..Len(inputs) : <<tx_index, k>> \in connected
               \/ /\ cb_result = "validate_inputs_failed"
                  /\ cb_line = 546
                  /\ \E k \in stopped_at.input_index..Len(inputs) :
                         <<tx_index, k>> \notin connected

\* connect_block was stopped between the two inputs of a transaction, has
\* connected the second input all the same and has returned service_stopped.
C10_Witness ==
    /\ StoppedBetweenInputs
    /\ cb_pc = "done"
    /\ cb_result = "service_stopped"
    /\ stopped_at.input_index = 2
    /\ <<stopped_at.tx_index, 2>> \in connected

\* initialize_context has run for the block under validation.
ContextInitialized == vb_pc \notin {"constructed", "idle"} /\ cb_pc = "idle"

\* C11, as stated: every soft fork that initialize_context activated at a
\* height over a prefix of the chain is in the activation set at every later
\* height over every extension of that prefix.
C11_ActivationMonotone ==
    ContextInitialized =>
        \A pair \in was_active :
            pair[2] <= height_ => pair[1] \in activations_

\* C11, amended: bip16, once activated, stays in the activation set at every
\* later height; bip30 is in the set at every later height other than the
\* two exception heights; bip34, bip65 and bip66 follow the sliding sample of
\* versions and may leave the set.
C11_Bip16MonotoneBip30OutsideExceptions ==
    ContextInitialized =>
        \A pair \in was_active :
            /\ (pair[1] = "bip16_enabled" /\ pair[2] <= height_)
                   => "bip16_enabled" \in activations_
            /\ (pair[1] = "bip30_enabled" /\ pair[2] <= height_
                     /\ (testnet \/ height_ \notin {91842, 91880}))
                   => "bip30_enabled" \in activations_

\* bip16 was activated at a lower height and is active at this one.
C11_Witness ==
    /\ ContextInitialized
    /\ "bip16_enabled" \in activations_
    /\ \E pair \in was_active :
          pair[1] = "bip16_enabled" /\ pair[2] < height_

C12_WorkDependsOnPrefixOnly ==
    \A first \in previous_work, second \in previous_work :
        first[2] = second[2]

\* C12, amended: on mainnet the required bits depend on the prefix only; on
\* testnet they depend on the prefix and on the candidate's own timestamp,
\* and two candidates with the same timestamp get the same required bits.
C12_WorkDependsOnPrefixAndTestnetTimestamp ==
    \A first \in previous_work, second \in previous_work :
        (~testnet \/ first[1] = second[1]) => first[2] = second[2]

\* Candidates with different timestamps were validated on mainnet at one
\* height, and the last of them was accepted.
C12_Witness ==
    /\ ~testnet
    /\ vb_pc = "done"
    /\ vb_result = "success"
    /\ \E first \in previous_work, second \in previous_work :
          first[1] # second[1]

\* accept_block has reached its last check and returned from it.
AcceptedUpToCoinbaseHeight ==
    cb_pc = "idle" /\ vb_pc = "done" /\ vb_line \in {401, 403}

\* C18, as stated: when all earlier checks pass, accept_block returns
\* CoinbaseHeightMismatch exactly when bip34 is in the activation set, the
\* header version is at least 3 and the coinbase script does not begin with
\* the push of the height.
C18_CoinbaseHeightFromVersion3 ==
    AcceptedUpToCoinbaseHeight =>
        (vb_result = "coinbase_height_mismatch"
            <=> /\ "bip34_enabled" \in activations_
                /\ current_block_.header.version >= 3
                /\ ~is_valid_coinbase_height(height_, current_block_))

\* C18, amended: the coinbase-height rule is applied exactly when bip34 is in
\* the activation set and the header version is at least 2; it is not
\* applied to a block of version 1.
C18_CoinbaseHeightFromVersion2 ==
    AcceptedUpToCoinbaseHeight =>
        /\ vb_result = "coinbase_height_mismatch"
              <=> /\ "bip34_enabled" \in activations_
                  /\ current_block_.header.version >= 2
                  /\ ~is_valid_coinbase_height(height_, current_block_)
        /\ vb_result \in {"coinbase_height_mismatch", "success"}

\* A block of version 2 was rejected for its coinbase height.
C18_Witness ==
    /\ AcceptedUpToCoinbaseHeight
    /\ vb_result = "coinbase_height_mismatch"
    /\ current_block_.header.version = 2

\* connect_block returned because validate_inputs failed; tx_index and
\* input_index are those of the input that failed.
FailedInput == cb_pc = "done" /\ cb_line = 546

OutpointOf(t, i) == current_block_.transactions[t].inputs[i].previous_output

\* The sigop count check_block compares with the limit.
LegacyWithinLimit ==
    legacy_sigops_count_list(current_block_.transactions)
        <= max_block_script_sig_operations

\* C13, as stated: when the block passes the legacy sigop limit and the
\* running total exceeds 20,000 after the pay-to-script-hash count of an
\* input was added, connect_block returns TooManySigs.
C13_ScriptHashOverflowTooManySigs ==
    (cb_pc = "done" /\ LegacyWithinLimit
         /\ total_sigops > max_block_script_sig_operations)
        => cb_result = "too_many_sigs"

\* C13, amended: in that case connect_input returns false and connect_block
\* returns ValidateInputsFailed, from line 546.
C13_ScriptHashOverflowValidateInputsFailed ==
    (cb_pc = "done" /\ LegacyWithinLimit
         /\ total_sigops > max_block_script_sig_operations)
        => (cb_result = "validate_inputs_failed" /\ cb_line = 546)

\* The input that redeems the pay-to-script-hash output took the total over
\* the limit.
C13_Witness ==
    /\ FailedInput
    /\ LegacyWithinLimit
    /\ total_sigops > max_block_script_sig_operations
    /\ current_block_.transactions[tx_index] = SpendScriptHash

\* The spend index has a record for the outpoint and the spender is on the
\* persistent chain at or below the fork point.
CommittedSpent(outpoint) ==
    /\ outpoint \in DOMAIN interface_.spends
    /\ interface_.spends[outpoint] \in DOMAIN interface_.transactions
    /\ interface_.transactions[interface_.spends[outpoint]].height
           <= fork_index_

\* An input of the orphan branch, up to the block under validation, at a
\* position other than input i of its transaction t, references the outpoint.
BranchSpent(outpoint, t, i) ==
    \E position \in 1..(orphan_index_ + 1) :
        \E u \in DOMAIN orphan_chain_[position].transactions :
            \E j \in DOMAIN orphan_chain_[position].transactions[u].inputs :
                /\ <<position, u, j>> # <<orphan_index_ + 1, t, i>>
                /\ orphan_chain_[position].transactions[u].inputs[j]
                       .previous_output = outpoint

PreviousOf(t, i) == fetch_transaction(OutpointOf(t, i).hash)

\* The input spends an output of a coinbase that is `age` blocks below the
\* block under validation, for an age in the set.
SpendsCoinbaseAged(t, i, ages) ==
    /\ PreviousOf(t, i).found
    /\ is_coinbase(PreviousOf(t, i).transaction)
    /\ height_ - PreviousOf(t, i).height \in ages

\* A reason other than immaturity for which connect_input returns false on
\* the input on which validate_inputs failed.
FailedOtherwise ==
    LET tx == current_block_.transactions[tx_index]
        previous == PreviousOf(tx_index, input_index)
        index == OutpointOf(tx_index, input_index).index
    IN  \/ ~previous.found
        \/ index >= Len(previous.transaction.outputs)
        \/ total_sigops > max_block_script_sig_operations
        \/ previous.transaction.outputs[index + 1].value > max_money
        \/ ~check_consensus(previous.transaction.outputs[index + 1].script,
                            tx, input_index)
        \/ CommittedSpent(OutpointOf(tx_index, input_index))
        \/ BranchSpent(OutpointOf(tx_index, input_index), tx_index,
                       input_index)
        \/ value_in > max_money

\* C15: no input that spends a coinbase output less than 100 blocks old, on
\* the persistent chain or in the orphan branch, is connected, so that
\* connect_block fails with ValidateInputsFailed on it; and an input that
\* spends a coinbase output at least 100 blocks old is rejected only for
\* another reason.
C15_ImmatureCoinbaseRejected ==
    cb_pc # "idle" =>
        /\ \A pair \in connected :
               ~SpendsCoinbaseAged(pair[1], pair[2],
                                   0..(coinbase_maturity - 1))
        /\ (cb_pc = "done" /\ cb_result = "success") =>
               \A t \in 2..Len(current_block_.transactions) :
                   \A i \in DOMAIN current_block_.transactions[t].inputs :
                       ~SpendsCoinbaseAged(t, i, 0..(coinbase_maturity - 1))
        /\ (FailedInput
               /\ SpendsCoinbaseAged(tx_index, input_index,
                      coinbase_maturity..(height_ + 1)))
              => FailedOtherwise

\* validate_inputs failed on an input that spends the coinbase of the earlier
\* block of the orphan branch, one block below, for no other reason.
C15_Witness ==
    /\ FailedInput
    /\ SpendsCoinbaseAged(tx_index, input_index, {1})
    /\ PreviousOf(tx_index, input_index).height > fork_index_
    /\ ~FailedOtherwise

\* C17, as stated: with bip30 in the activation set, a block with a
\* transaction whose hash exists in the chain at or below the fork point with
\* all outputs spent has no input validated, and connect_block returns
\* DuplicateOrSpent (or ServiceStopped when it is stopped first).
C17_DuplicateOrSpentWhenBip30 ==
    (/\ cb_pc # "idle"
     /\ "bip30_enabled" \in activations_
     /\ \E t \in DOMAIN current_block_.transactions :
            is_spent_duplicate(current_block_.transactions[t]))
        => /\ connected = {}
           /\ cb_pc = "done"
                 => cb_result \in {"duplicate_or_spent", "service_stopped"}

\* The instances that are started.
StartedInstances == { i \in DOMAIN instances : ~instances[i].stopped_ }

\* An instance that does not hold the lock file while another one does is
\* stopped, inside no start() call, and its database interface not started.
LockedOut(i) ==
    /\ instances[i].stopped_
    /\ ~instances[i].interface_started
    /\ instances[i].returned # "true"
    /\ instances[i].pc = "idle"

\* C16: at most one instance over the directory is started at any time, and
\* a start() call made while another instance holds the lock file returns
\* false, leaves the instance stopped and does not start its database
\* interface.
C16_AtMostOneStarted ==
    /\ [](/\ Cardinality(StartedInstances) <= 1
          /\ \A i \in DOMAIN instances :
                 lockfile \notin {0, i} => LockedOut(i))
    /\ [][\A i \in DOMAIN instances :
              (lockfile \notin {0, i}
                   /\ instances'[i].starts = instances[i].starts + 1)
                  => (instances'[i].returned = "false" /\ LockedOut(i)')]_vars

\* One instance is started and the start() of the other has returned false.
C16_Witness ==
    /\ instances # <<>>
    /\ \E i \in DOMAIN instances, j \in DOMAIN instances :
          /\ ~instances[i].stopped_
          /\ instances[i].interface_started
          /\ lockfile = i
          /\ instances[j].returned = "false"
          /\ instances[j].stopped_

\* The outpoints of the database's transactions and those the block spends.
KnownOutpoints ==
    DOMAIN interface_.spends
        \cup { [hash |-> tx_hash, index |-> 0] :
                  tx_hash \in DOMAIN interface_.transactions }
        \cup UNION { { OutpointOf(t, i) :
                         i \in DOMAIN current_block_.transactions[t].inputs } :
                     t \in DOMAIN current_block_.transactions }

\* C19, as stated: the committed is_output_spent(outpoint) of both adapters
\* is true iff the spend index has a record for the outpoint and the spender
\* is on the persistent chain at or below the fork point.
C19_AdaptersReturnCommittedSpent ==
    cb_pc # "idle" =>
        \A outpoint \in KnownOutpoints :
            /\ is_output_spent_committed(outpoint) <=> CommittedSpent(outpoint)
            /\ is_output_spent_utxo(outpoint) <=> CommittedSpent(outpoint)

\* The number of headers among the last `sample` ones (all of them below
\* that height) whose version is at least `version`.
VersionsAtLeast(version) ==
    Cardinality({ h \in (height_ - Min(sample, height_))..(height_ - 1) :
                      fetch_block(h).version >= version })

\* The highest version that `threshold` of the sampled headers have reached.
VersionReachedBy(threshold) ==
    IF VersionsAtLeast(4) >= threshold THEN 4
    ELSE IF VersionsAtLeast(3) >= threshold THEN 3
    ELSE IF VersionsAtLeast(2) >= threshold THEN 2
    ELSE 1

\* accept_block went past its version check.
PassedVersionCheck ==
    \/ vb_pc = "coinbase_height"
    \/ vb_pc = "done" /\ vb_line \in {396, 401, 403}

\* C21: initialize_context sets minimum_version to the highest version in
\* {2, 3, 4} that at least `enforced` of the sampled preceding headers have
\* reached, to 1 when there is none, whatever the versions (above 255 too)
\* and the height; accept_block returns OldVersionBlock exactly for a block
\* whose version is below it, when the earlier checks passed.
C21_MinimumVersionEnforced ==
    ContextInitialized =>
        /\ minimum_version_ = VersionReachedBy(enforced)
        /\ vb_result = "old_version_block"
              => current_block_.header.version < minimum_version_
        /\ PassedVersionCheck
              => current_block_.header.version >= minimum_version_

\* A block of version 2 was rejected where version 3 is enforced by headers
\* one of which has a version above 255.
C21_Witness ==
    /\ ContextInitialized
    /\ vb_result = "old_version_block"
    /\ minimum_version_ = 3
    /\ current_block_.header.version = 2
    /\ \E h \in (height_ - Min(sample, height_))..(height_ - 1) :
          fetch_block(h).version > max_uint8

\* C22: initialize_context adds bip34 to the activation set iff at least
\* `activated` of the sampled preceding headers have a version >= 2, bip66
\* iff as many have a version >= 3, bip65 iff as many have a version >= 4,
\* and bip16 iff the height is at least 173805 (514 on testnet).
C22_ActivationThresholds ==
    ContextInitialized =>
        /\ "bip34_enabled" \in activations_ <=> VersionsAtLeast(2) >= activated
        /\ "bip66_enabled" \in activations_ <=> VersionsAtLeast(3) >= activated
        /\ "bip65_enabled" \in activations_ <=> VersionsAtLeast(4) >= activated
        /\ "bip16_enabled" \in activations_
              <=> height_ >= (IF testnet THEN 514 ELSE 173805)

\* At the bip16 activation height of mainnet, the sample activates bip66
\* with exactly `activated` headers and does not activate bip65.
C22_Witness ==
    /\ ContextInitialized
    /\ ~testnet
    /\ height_ = 173805
    /\ VersionsAtLeast(3) = activated
    /\ activations_ = {"bip16_enabled", "bip30_enabled", "bip34_enabled",
                       "bip66_enabled"}

\* The heights of the headers the median time past is taken over.
MedianHeights ==
    (height_ - Min(height_, median_time_past_blocks))..(height_ - 1)

\* `time` is the median of the timestamps at MedianHeights: one of them, with
\* at most half of them below it and more than half of them at or below it
\* (the upper one of the two middle values of an even number).
IsMedianTimePast(time) ==
    /\ \E h \in MedianHeights : fetch_block(h).timestamp = time
    /\ Cardinality({ h \in MedianHeights : fetch_block(h).timestamp < time })
           <= Cardinality(MedianHeights) \div 2
    /\ Cardinality({ h \in MedianHeights : fetch_block(h).timestamp <= time })
           > Cardinality(MedianHeights) \div 2

\* accept_block went past its timestamp check.
PassedTimestampCheck ==
    \/ vb_pc \in {"final", "checkpoint", "version", "coinbase_height"}
    \/ vb_pc = "done" /\ vb_line \in {373, 379, 381, 388, 390, 394, 396, 401, 403}

\* C23: when the work check passed, accept_block returns TimestampTooEarly
\* iff the timestamp of the header is not greater than the median of the
\* timestamps of the last min(height, median_time_past_blocks) headers, read
\* from the orphan branch above the fork point and from the persistent chain
\* at or below it.
C23_TimestampAboveMedianTimePast ==
    (ContextInitialized /\ height_ > 0) =>
        /\ vb_result = "timestamp_too_early"
              => \E time \in 0..(TimeModulus - 1) :
                     /\ IsMedianTimePast(time)
                     /\ current_block_.header.timestamp <= time
        /\ PassedTimestampCheck
              => \A time \in 0..(TimeModulus - 1) :
                     IsMedianTimePast(time)
                         => current_block_.header.timestamp > time

\* A block was rejected for a timestamp equal to the median, the median
\* being the timestamp of a header of the orphan branch; the timestamp is
\* above the one of every header of the persistent chain.
C23_Witness ==
    /\ ContextInitialized
    /\ vb_result = "timestamp_too_early"
    /\ height_ - 1 > fork_index_
    /\ IsMedianTimePast(fetch_block(height_ - 1).timestamp)
    /\ current_block_.header.timestamp = fetch_block(height_ - 1).timestamp
    /\ \A h \in MedianHeights :
          h <= fork_index_
              => fetch_block(h).timestamp < current_block_.header.timestamp

\* The timestamps at both ends of the retargeting interval below height_.
IntervalEnd == fetch_block(height_ - 1).timestamp
IntervalStart == fetch_block(height_ - readjustment_interval).timestamp

\* The bits of the previous target scaled by `timespan` over the target
\* time span, limited to the maximal target.
ScaledBits(timespan) ==
    compact(Min(max_target,
                (compact_target(fetch_block(height_ - 1).bits) * timespan)
                    \div target_timespan))

\* The difference of two timestamps as integers, limited to a quarter of and
\* four times the target time span.
ClampedSpan ==
    LET span == IntervalEnd - IntervalStart
    IN  IF span < target_timespan \div 4 THEN target_timespan \div 4
        ELSE IF span > target_timespan * 4 THEN target_timespan * 4
        ELSE span

\* C24: work_required is max_work_bits at height 0, the bits of the previous
\* block at a mainnet height that is not a retarget height, and at a
\* retarget height the compact form of the previous target times the
\* clamped difference of the timestamps over the target time span, limited
\* to the maximal target.
C24_WorkRequiredTable ==
    \A pair \in previous_work :
        /\ height_ = 0 => pair[2] = max_work_bits
        /\ (height_ % readjustment_interval # 0 /\ ~testnet)
              => pair[2] = fetch_block(height_ - 1).bits
        /\ (height_ > 0 /\ height_ % readjustment_interval = 0)
              => pair[2] = ScaledBits(ClampedSpan)

\* C30: at a retarget height whose interval ends on an earlier timestamp
\* than it starts on, work_required uses the lower bound of the clamp, a
\* quarter of the target time span.
C30_NegativeTimespanLowerClamp ==
    (height_ > 0 /\ height_ % readjustment_interval = 0
         /\ IntervalEnd < IntervalStart)
        => \A pair \in previous_work :
               pair[2] = ScaledBits(target_timespan \div 4)

\* The hashes of the blocks at the heights above the start and below the stop,
\* up to the top of the chain.
HashesBetween(start_height, stop_height) ==
    LET last == Min(Len(block_table) - 1, stop_height - 1)
    IN  [i \in 1..Max(0, last - start_height) |->
            block_table[start_height + i + 1]]

\* C25: fetch_locator_blocks hands to its handler, in ascending height
\* order, the hashes of the blocks above the start height, one for each
\* height at which a block exists, up to the first height without a block or
\* to the stop height, and at most maximum_get_blocks of them.
C25_LocatorBlocksDelivered ==
    fetch_pc = "done" =>
        /\ fetch_hashes = HashesBetween(fetch_start, fetch_stop)
        /\ Len(fetch_hashes) <= maximum_get_blocks

\* The transaction with the hash is on the persistent chain at or below the
\* fork point, in an earlier block of the orphan branch, or in the block
\* under validation before position t.
FoundBefore(tx_hash, t) ==
    \/ transaction_exists(tx_hash)
    \/ \E orphan \in 1..orphan_index_ :
           \E u \in DOMAIN orphan_chain_[orphan].transactions :
               hash_transaction(orphan_chain_[orphan].transactions[u]) = tx_hash
    \/ \E u \in 1..(t - 1) :
           hash_transaction(current_block_.transactions[u]) = tx_hash

\* C26: connect_block connects an input only if its previous transaction is
\* found before the spending transaction: on the chain, in an earlier block
\* of the branch, or earlier in the block under validation; it never
\* connects an input whose previous transaction is a later transaction of
\* the block.
C26_SameBlockSpendsEarlierOnly ==
    (cb_pc # "idle") =>
        \A pair \in connected :
            FoundBefore(OutpointOf(pair[1], pair[2]).hash, pair[1])

\* C27: connect_input never reads an output outside the output list of the
\* previous transaction: an input whose previous_output.index is not below
\* the number of outputs is not connected, and the run does not end in the
\* read.
C27_OutputIndexWithinPrevious ==
    (cb_pc # "idle") =>
        /\ cb_result # "aborted"
        /\ \A pair \in connected :
               OutpointOf(pair[1], pair[2]).index
                   < Len(PreviousOf(pair[1], pair[2]).transaction.outputs)

\* The body of write task t starts in this step, after start() and stop().
BodyStartsStopped(t) ==
    /\ flock_ = "held"
    /\ stopped_
    /\ tasks[t].kind \in WriteKinds
    /\ tasks[t].pc = EntryPc(tasks[t].kind)
    /\ tasks'[t].pc # tasks[t].pc

\* The step changes neither the seqlock counter, nor the database, nor the
\* orphan pool.
NothingWritten ==
    UNCHANGED <<seqlock_, blocks_, transactions_, orphans_, started>>

\* C28: once stop() has set the stopped flag, a store or an import whose
\* body starts after that returns at once: it does not increment the seqlock
\* counter and pushes no block to the database or to the orphan pool.
C28_NoWriteAfterStop ==
    [][\A t \in TaskIds :
           BodyStartsStopped(t)
               => (tasks'[t].pc = "done" /\ NothingWritten)]_vars

\* C29: under fair scheduling, every read request (fetch_parallel or
\* fetch_ordered) eventually invokes its handler: the reader retries only
\* while the seqlock counter is odd or has changed since it was sampled,
\* every write turn ends with the counter even, and the writes of a run are
\* finitely many.
C29_ReadsEventuallyHandled ==
    \A t \in 1..MaxTasks :
        []((t \in TaskIds /\ tasks[t].kind \in ReadKinds)
               => <>(t \in TaskIds /\ tasks[t].handled))

\* A reader sleeps before its next attempt while a write is in progress and
\* the counter is odd.
C29_Witness ==
    \E r \in TaskIds, w \in TaskIds :
        /\ tasks[r].kind \in ReadKinds
        /\ tasks[r].pc = "sleep"
        /\ InBody(w)
        /\ seqlock_ % 2 = 1

====
